---- MODULE Spec2Model ----
(***************************************************************************)
(* Byte-pair-encoding tokenizers of minbpe: BaseTokenizer, BasicTokenizer, *)
(* RegexTokenizer and GPT4Tokenizer.                                       *)
(*                                                                         *)
(* A Python str is a sequence of code points, a bytes object a sequence of *)
(* integers 0..255, a dict a sequence of <<key, value>> entries in         *)
(* insertion order.                                                        *)
(*                                                                         *)
(* A vocabulary (dict[int, bytes]) always starts as the 256 entries        *)
(* b -> bytes([b]); it is stored as the entries that differ from or extend *)
(* those 256 (VocabHas, VocabGet, VocabSet give the dict's view).          *)
(***************************************************************************)
EXTENDS Integers, Sequences, FiniteSets, TLC

\* ------------------------------------------------------------------ bounds
MaxLen == 2
MaxMerges == 3
MaxDetMerges == 2
MaxSpecialMerges == 1
MaxMergeLen == 4

\* ------------------------------------------------------------- text inputs
\* Code points the enumerated texts are drawn from: "a", "b" and the space.
Chars == {97, 98, 32}

RECURSIVE SeqsUpTo(_, _)
SeqsUpTo(S, n) ==
    IF n = 0 THEN {<<>>}
    ELSE LET shorter == SeqsUpTo(S, n - 1)
         IN  shorter \cup {Append(s, c) : s \in {x \in shorter : Len(x) = n - 1}, c \in S}

\* "aaabdaaabac", the worked example of test_wikipedia_example.
WikiText == <<97, 97, 97, 98, 100, 97, 97, 97, 98, 97, 99>>
\* "aé": a text with a two-byte character.
AccentText == <<97, 233>>

\* "aaa" (an odd run), "aab" and " aa" (two pairs of equal count), "a a" and
\* "a  b" (several chunks).
ExtraTexts ==
    {WikiText, AccentText, <<97, 97, 97>>, <<97, 97, 98>>, <<32, 97, 97>>,
     <<97, 32, 97>>, <<97, 32, 32, 98>>}

Texts == SeqsUpTo(Chars, MaxLen) \cup ExtraTexts

\* vocab_size arguments: one below the 256 floor up to 256 + MaxMerges.
VocabSizes == 255 .. (256 + MaxMerges)

\* --------------------------------------------------------------- dict, list
DictHas(d, k) == \E j \in 1..Len(d) : d[j][1] = k
DictGet(d, k) == d[CHOOSE j \in 1..Len(d) : d[j][1] = k][2]
\* d[k] = v: an existing key keeps its position, a new key is appended.
DictSet(d, k, v) ==
    IF DictHas(d, k)
    THEN [j \in 1..Len(d) |-> IF d[j][1] = k THEN <<k, v>> ELSE d[j]]
    ELSE Append(d, <<k, v>>)
DictKeys(d) == {d[j][1] : j \in 1..Len(d)}
\* "if k in d: d[k] += c / else: d[k] = c". d is bound once, so that a chain
\* of updates is evaluated once.
DictAdd(d, k, c) ==
    CHOOSE r \in {IF DictHas(d0, k) THEN DictSet(d0, k, DictGet(d0, k) + c)
                  ELSE DictSet(d0, k, c) : d0 \in {d}} : TRUE

RECURSIVE Concat(_)
Concat(ss) == IF ss = <<>> THEN <<>> ELSE Head(ss) \o Concat(Tail(ss))

\* Lexicographic order on pairs of ids (Python tuple comparison).
PairLess(p, q) == p[1] < q[1] \/ (p[1] = q[1] /\ p[2] < q[2])

\* --------------------------------------------------------------- UTF-8
\* An encoding that writes one byte per code point (Latin-1).
EncodeCharLatin1(c) == <<c % 256>>
\* str.encode("utf-8") for code points below 0x800.
EncodeChar(c) ==
    IF c < 128 THEN <<c>> ELSE <<192 + (c \div 64), 128 + (c % 64)>>
RECURSIVE Utf8Encode(_)
Utf8Encode(text) ==
    IF text = <<>> THEN <<>> ELSE EncodeChar(Head(text)) \o Utf8Encode(Tail(text))

ReplacementChar == 65533
IsContinuation(b) == b >= 128 /\ b <= 191
\* bytes.decode("utf-8", errors="replace") for one- and two-byte forms: a
\* byte that does not start or complete a valid sequence becomes U+FFFD.
RECURSIVE Utf8Decode(_)
Utf8Decode(bs) ==
    IF bs = <<>> THEN <<>>
    ELSE LET b == Head(bs) IN
         IF b < 128 THEN <<b>> \o Utf8Decode(Tail(bs))
         ELSE IF b >= 194 /\ b <= 223 /\ Len(bs) >= 2 /\ IsContinuation(bs[2])
              THEN <<(b - 192) * 64 + (bs[2] - 128)>> \o Utf8Decode(Tail(Tail(bs)))
              ELSE <<ReplacementChar>> \o Utf8Decode(Tail(bs))

\* ------------------------------------------------------- BaseTokenizer
\* _get_stats: counts of adjacent pairs, keyed in order of first occurrence.
RECURSIVE GetStatsFrom(_, _, _)
GetStatsFrom(ids, i, freq_two_tokens) ==
    IF i > Len(ids) - 1 THEN freq_two_tokens
    ELSE GetStatsFrom(ids, i + 1, DictAdd(freq_two_tokens, <<ids[i], ids[i + 1]>>, 1))

\* A _get_stats that also pairs the last id with the first (wrap-around).
GetStatsWrap(ids) ==
    IF Len(ids) >= 2 THEN GetStatsFrom(Append(ids, ids[1]), 1, <<>>) ELSE <<>>

\* A _get_stats whose loop stops one pair early: range(len(ids) - 2).
GetStatsShort(ids) ==
    IF Len(ids) >= 2 THEN GetStatsFrom(SubSeq(ids, 1, Len(ids) - 1), 1, <<>>) ELSE <<>>

_get_stats(ids) == GetStatsFrom(ids, 1, <<>>)

\* _merge: one left-to-right pass; a match consumes both positions.
RECURSIVE MergeFrom(_, _, _, _, _)
MergeFrom(ids, pair, new_token, i, merge) ==
    IF i > Len(ids) THEN merge
    ELSE IF i < Len(ids) /\ <<ids[i], ids[i + 1]>> = pair
         THEN MergeFrom(ids, pair, new_token, i + 2, Append(merge, new_token))
         ELSE MergeFrom(ids, pair, new_token, i + 1, Append(merge, ids[i]))

\* A _merge that advances by one position after a match.
RECURSIVE MergeOverlapFrom(_, _, _, _, _)
MergeOverlapFrom(ids, pair, new_token, i, merge) ==
    IF i > Len(ids) THEN merge
    ELSE IF i < Len(ids) /\ <<ids[i], ids[i + 1]>> = pair
         THEN MergeOverlapFrom(ids, pair, new_token, i + 1, Append(merge, new_token))
         ELSE MergeOverlapFrom(ids, pair, new_token, i + 1, Append(merge, ids[i]))
MergeOverlap(ids, pair, new_token) == MergeOverlapFrom(ids, pair, new_token, 1, <<>>)

\* A _merge that replaces the first occurrence only.
MergeFirstOnly(ids, pair, new_token) ==
    LET S == {i \in 1..(Len(ids) - 1) : <<ids[i], ids[i + 1]>> = pair}
    IN  IF S = {} THEN ids
        ELSE LET i == CHOOSE x \in S : \A y \in S : x <= y
             IN  SubSeq(ids, 1, i - 1) \o <<new_token>> \o SubSeq(ids, i + 2, Len(ids))

_merge(ids, pair, new_token) == MergeFrom(ids, pair, new_token, 1, <<>>)

\* The pair with the highest count, the greatest pair among equal counts;
\* <<<<>>, 0>> stands for (None, 0), the answer for empty statistics.
RECURSIVE MostFrequentFrom(_, _, _, _)
MostFrequentFrom(stats, j, best_pair, best_count) ==
    IF j > Len(stats) THEN <<best_pair, best_count>>
    ELSE LET pair == stats[j][1]
             count == stats[j][2]
         IN  IF count > best_count
                \/ (count = best_count /\ best_pair # <<>> /\ PairLess(best_pair, pair))
             THEN MostFrequentFrom(stats, j + 1, pair, count)
             ELSE MostFrequentFrom(stats, j + 1, best_pair, best_count)
_get_most_frequent_pair(stats) == MostFrequentFrom(stats, 1, <<>>, 0)

\* The vocabulary after "for byte_value in range(256): vocab[b] = bytes([b])".
BaseVocab == <<>>
VocabHas(v, idx) == (idx >= 0 /\ idx <= 255) \/ idx \in DOMAIN v
VocabGet(v, idx) == IF idx \in DOMAIN v THEN v[idx] ELSE <<idx>>
VocabIds(v) == (0..255) \cup DOMAIN v
\* vocab[idx] = bs
VocabSet(v, idx, bs) ==
    IF idx >= 0 /\ idx <= 255 /\ bs = <<idx>>
    THEN [x \in DOMAIN v \ {idx} |-> v[x]]
    ELSE [x \in DOMAIN v \cup {idx} |-> IF x = idx THEN bs ELSE v[x]]


\* _build_vocab: the 256 bytes, then each merge in table order, then the
\* special tokens; a later assignment to an id overwrites an earlier one.
\* A builder that joins the two values of a merge in the other order.
RECURSIVE BuildVocabMergesSwapped(_, _, _)
BuildVocabMergesSwapped(merges, j, v) ==
    IF j > Len(merges) THEN v
    ELSE BuildVocabMergesSwapped(merges, j + 1,
             VocabSet(v, merges[j][2],
                      VocabGet(v, merges[j][1][2]) \o VocabGet(v, merges[j][1][1])))
RECURSIVE BuildVocabMerges(_, _, _)
BuildVocabMerges(merges, j, v) ==
    IF j > Len(merges) THEN v
    ELSE LET p0 == merges[j][1][1]
             p1 == merges[j][1][2]
             idx == merges[j][2]
         IN  BuildVocabMerges(merges, j + 1,
                 VocabSet(v, idx, VocabGet(v, p0) \o VocabGet(v, p1)))
RECURSIVE BuildVocabSpecials(_, _, _)
BuildVocabSpecials(specials, j, v) ==
    IF j > Len(specials) THEN v
    ELSE LET idx == specials[j][2]
         IN  BuildVocabSpecials(specials, j + 1,
                 VocabSet(v, idx, Utf8Encode(specials[j][1])))
_build_vocab(merges, specials) ==
    BuildVocabSpecials(specials, 1, BuildVocabMerges(merges, 1, BaseVocab))

\* ------------------------------------------------------ split pattern
\* The text of a pattern is a sequence of code points. The default pattern is
\* shortened to its last alternative "\s+"; the other pattern a tokenizer is
\* constructed with here is "(?s).+", which matches a whole non-empty text.
GPT4_SPLIT_PATTERN == <<92, 115, 43>>
WholePattern == <<40, 63, 115, 41, 46, 43>>
Patterns == {GPT4_SPLIT_PATTERN, WholePattern}
\* regex.findall(_GPT4_SPLIT_PATTERN, text) on texts of letters and spaces.
\* The alternatives such texts can match are
\*   [^\r\n\p{L}\p{N}]?+\p{L}+   one optional non-letter, then letters
\*   \s+(?!\S)                   spaces not followed by a non-space
\*   \s+                         spaces
IsLetter(c) == (c >= 97 /\ c <= 122) \/ c = 233
IsSpace(c) == c = 32
RECURSIVE LetterRun(_, _)
LetterRun(text, p) ==
    IF p <= Len(text) /\ IsLetter(text[p]) THEN 1 + LetterRun(text, p + 1) ELSE 0
RECURSIVE SpaceRun(_, _)
SpaceRun(text, p) ==
    IF p <= Len(text) /\ IsSpace(text[p]) THEN 1 + SpaceRun(text, p + 1) ELSE 0
\* Length of the pattern's match starting at p; 0 when it does not match.
MatchLen(text, p) ==
    LET q == IF ~IsLetter(text[p]) THEN p + 1 ELSE p
        n == LetterRun(text, q)
        r == SpaceRun(text, p)
    IN  IF n >= 1 THEN (q - p) + n
        ELSE IF r >= 1 /\ p + r > Len(text) THEN r
        ELSE IF r >= 2 THEN r - 1
        ELSE r
RECURSIVE FindAllFrom(_, _)
FindAllFrom(text, p) ==
    IF p > Len(text) THEN <<>>
    ELSE LET m == MatchLen(text, p)
         IN  IF m = 0 THEN FindAllFrom(text, p + 1)
             ELSE <<SubSeq(text, p, p + m - 1)>> \o FindAllFrom(text, p + m)
\* regex.findall(self.compiled_pattern, text)
FindAll(compiled, text) ==
    IF compiled = WholePattern THEN (IF text = <<>> THEN <<>> ELSE <<text>>)
    ELSE FindAllFrom(text, 1)

\* ------------------------------------------------------------ encoding
\* The pair of stats with the lowest merge id, <<>> (None) when no pair of
\* stats is a key of the merge table (every priority is infinite).
\* A choice of the pair with the highest merge id.
BestPairHighest(merges, stats) ==
    LET S == {j \in 1..Len(stats) : DictHas(merges, stats[j][1])}
    IN  IF S = {} THEN <<>>
        ELSE stats[CHOOSE j \in S :
                      \A k \in S : DictGet(merges, stats[k][1]) <= DictGet(merges, stats[j][1])][1]
RECURSIVE BestPairFrom(_, _, _, _)
BestPairFrom(merges, stats, j, best_pair) ==
    IF j > Len(stats) THEN best_pair
    ELSE LET p == stats[j][1]
         IN  IF DictHas(merges, p)
                /\ (best_pair = <<>> \/ DictGet(merges, p) < DictGet(merges, best_pair))
             THEN BestPairFrom(merges, stats, j + 1, p)
             ELSE BestPairFrom(merges, stats, j + 1, best_pair)
BestPair(merges, stats) == BestPairFrom(merges, stats, 1, <<>>)

\* The while loop of BasicTokenizer.encode and RegexTokenizer._encode_chunk.
RECURSIVE EncodeLoop(_, _)
EncodeLoop(merges, ids) ==
    IF Len(ids) < 2 THEN ids
    ELSE LET pair == BestPair(merges, _get_stats(ids))
         IN  IF pair = <<>> \/ ~DictHas(merges, pair) THEN ids
             ELSE EncodeLoop(merges, _merge(ids, pair, DictGet(merges, pair)))

_encode_chunk(merges, text_bytes) == EncodeLoop(merges, text_bytes)

RECURSIVE EncodeChunks(_, _)
EncodeChunks(merges, text_chunks) ==
    IF text_chunks = <<>> THEN <<>>
    ELSE _encode_chunk(merges, Utf8Encode(Head(text_chunks)))
            \o EncodeChunks(merges, Tail(text_chunks))
encode_ordinary(compiled, merges, text) == EncodeChunks(merges, FindAll(compiled, text))

BasicEncode(merges, text) == EncodeLoop(merges, Utf8Encode(text))


\* ------------------------------------------------------ special tokens
IsPrefixAt(lit, text, p) ==
    p + Len(lit) - 1 <= Len(text) /\ SubSeq(text, p, p + Len(lit) - 1) = lit
\* A membership test that looks at the start of the text only.
ContainsAtStart(text, lit) == IsPrefixAt(lit, text, 1)
Contains(text, lit) == \E p \in 1..(Len(text) + 1) : IsPrefixAt(lit, text, p)
\* The alternation "(lit1|lit2|...)" tries the literals in dict order and
\* takes the first that matches at the position; 0 when none does.
FirstAlt(special, text, p) ==
    LET S == {j \in 1..Len(special) : IsPrefixAt(special[j][1], text, p)}
    IN  IF S = {} THEN 0 ELSE CHOOSE j \in S : \A k \in S : j <= k
\* A regex.split whose pattern has no capturing group: the matched literals
\* are left out of the result.
RECURSIVE SplitFromNoCapture(_, _, _, _)
SplitFromNoCapture(special, text, start, p) ==
    IF p > Len(text) THEN <<SubSeq(text, start, Len(text))>>
    ELSE LET j == FirstAlt(special, text, p)
         IN  IF j = 0 THEN SplitFromNoCapture(special, text, start, p + 1)
             ELSE LET next == p + Len(special[j][1])
                  IN  <<SubSeq(text, start, p - 1)>>
                         \o SplitFromNoCapture(special, text, next, next)
\* regex.split(special_pattern, text): the text between matches and each
\* matched literal, in order.
RECURSIVE SplitFrom(_, _, _, _)
SplitFrom(special, text, start, p) ==
    IF p > Len(text) THEN <<SubSeq(text, start, Len(text))>>
    ELSE LET j == FirstAlt(special, text, p)
         IN  IF j = 0 THEN SplitFrom(special, text, start, p + 1)
             ELSE LET next == p + Len(special[j][1])
                  IN  <<SubSeq(text, start, p - 1), special[j][1]>>
                         \o SplitFrom(special, text, next, next)
RECURSIVE EncodeParts(_, _, _, _)
EncodeParts(compiled, merges, special, special_chunks) ==
    IF special_chunks = <<>> THEN <<>>
    ELSE LET part == Head(special_chunks)
         IN  (IF DictHas(special, part) THEN <<DictGet(special, part)>>
              ELSE encode_ordinary(compiled, merges, part))
                 \o EncodeParts(compiled, merges, special, Tail(special_chunks))

Policies == {"all", "none", "none_raise"}
\* RegexTokenizer.encode with a policy string: [ids, err], err = "" when it
\* returns.
RegexEncode(compiled, merges, specials, text, allowed_special) ==
    IF allowed_special \notin Policies
    THEN [ids |-> <<>>, err |-> "ValueError"]
    ELSE IF allowed_special = "none_raise" /\ \E j \in 1..Len(specials) : Contains(text, specials[j][1])
    THEN [ids |-> <<>>, err |-> "ValueError"]
    ELSE LET special == IF allowed_special = "all" THEN specials ELSE <<>>
         IN  IF special = <<>>
             THEN [ids |-> encode_ordinary(compiled, merges, text), err |-> ""]
             ELSE [ids |-> EncodeParts(compiled, merges, special,
                                       SplitFrom(special, text, 1, 1)),
                   err |-> ""]
\* The literal the ValueError of the "none_raise" policy names: the first
\* registered token, in dict order, that is in the text.
NoneRaiseLiteral(specials, text) ==
    LET S == {j \in 1..Len(specials) : Contains(text, specials[j][1])}
    IN  IF S = {} THEN <<>> ELSE specials[CHOOSE j \in S : \A k \in S : j <= k][1]
\* RegexTokenizer.encode with a set as allowed_special. "special" is still
\* None when the loop assigns special[k] = v for a registered token of the
\* set, a TypeError; with no such token "not special" holds for None.
RegexEncodeSet(compiled, merges, specials, text, allowed_special) ==
    IF \E j \in 1..Len(specials) : specials[j][1] \in allowed_special
    THEN [ids |-> <<>>, err |-> "TypeError"]
    ELSE [ids |-> encode_ordinary(compiled, merges, text), err |-> ""]

\* ------------------------------------------------------------ decoding
\* BasicTokenizer.decode: self.vocab[idx] raises KeyError for a missing id.
BasicDecode(v, ids) ==
    IF \E j \in 1..Len(ids) : ~VocabHas(v, ids[j])
    THEN [out |-> <<>>, err |-> "KeyError"]
    ELSE [out |-> Utf8Decode(Concat([j \in 1..Len(ids) |-> VocabGet(v, ids[j])])),
          err |-> ""]
\* RegexTokenizer.decode: the vocabulary first, then the special tokens.
RegexDecode(v, inverse_specials, ids) ==
    IF \E j \in 1..Len(ids) : ~VocabHas(v, ids[j]) /\ ~DictHas(inverse_specials, ids[j])
    THEN [out |-> <<>>, err |-> "ValueError"]
    ELSE [out |-> Utf8Decode(Concat([j \in 1..Len(ids) |->
                     IF VocabHas(v, ids[j]) THEN VocabGet(v, ids[j])
                     ELSE Utf8Encode(DictGet(inverse_specials, ids[j]))])),
          err |-> ""]

\* The id the error of decode names: the first id the loop fails on.
BasicDecodeBadId(v, ids) ==
    LET S == {j \in 1..Len(ids) : ~VocabHas(v, ids[j])}
    IN  IF S = {} THEN <<>> ELSE <<ids[CHOOSE j \in S : \A k \in S : j <= k]>>
RegexDecodeBadId(v, inverse_specials, ids) ==
    LET S == {j \in 1..Len(ids) :
                 ~VocabHas(v, ids[j]) /\ ~DictHas(inverse_specials, ids[j])}
    IN  IF S = {} THEN <<>> ELSE <<ids[CHOOSE j \in S : \A k \in S : j <= k]>>

\* ----------------------------------------------------------- model file
\* The file is a sequence of lines, a line a sequence of code points
\* without its newline.
VersionTag == <<109, 105, 110, 98, 112, 101, 32, 118, 49>>   \* "minbpe v1"
\* self.source, set once by BaseTokenizer.__init__ and never assigned again.
Source == <<>>
\* str(n) of an integer n >= 0, in decimal.
RECURSIVE IntToStr(_)
IntToStr(n) ==
    IF n < 10 THEN <<48 + n>> ELSE IntToStr(n \div 10) \o <<48 + (n % 10)>>
\* int(s): s parses when it is a non-empty run of decimal digits, after an
\* optional sign.
IsDigits(s) == s # <<>> /\ \A j \in 1..Len(s) : s[j] >= 48 /\ s[j] <= 57
IsInt(s) == IsDigits(s) \/ (Len(s) >= 2 /\ s[1] \in {43, 45} /\ IsDigits(Tail(s)))
RECURSIVE DigitsToInt(_)
DigitsToInt(s) ==
    IF s = <<>> THEN 0 ELSE 10 * DigitsToInt(SubSeq(s, 1, Len(s) - 1)) + (s[Len(s)] - 48)
StrToInt(s) ==
    IF s[1] = 45 THEN 0 - DigitsToInt(Tail(s))
    ELSE IF s[1] = 43 THEN DigitsToInt(Tail(s))
    ELSE DigitsToInt(s)
\* str.strip()
RECURSIVE Strip(_)
Strip(s) ==
    IF s = <<>> THEN s
    ELSE IF IsSpace(Head(s)) THEN Strip(Tail(s))
    ELSE IF IsSpace(s[Len(s)]) THEN Strip(SubSeq(s, 1, Len(s) - 1))
    ELSE s
\* str.split(): the maximal runs of non-whitespace, in order.
RECURSIVE SplitWsFrom(_, _, _)
SplitWsFrom(s, p, cur) ==
    LET done == IF cur = <<>> THEN <<>> ELSE <<cur>>
    IN  IF p > Len(s) THEN done
        ELSE IF IsSpace(s[p]) THEN done \o SplitWsFrom(s, p + 1, <<>>)
        ELSE SplitWsFrom(s, p + 1, Append(cur, s[p]))
SplitWs(s) == SplitWsFrom(s, 1, <<>>)

\* The lines _save_model_file writes: version, source, the number of
\* special tokens, a "literal id" line each, a "left right" line per merge.
ModelFileLines(merges, specials) ==
    <<VersionTag, Source, IntToStr(Len(specials))>>
       \o [j \in 1..Len(specials) |->
              specials[j][1] \o <<32>> \o IntToStr(specials[j][2])]
       \o [j \in 1..Len(merges) |->
              IntToStr(merges[j][1][1]) \o <<32>> \o IntToStr(merges[j][1][2])]

\* f.readline(): the next line, "" at the end of the file.
ReadLine(file, k) == IF k <= Len(file) THEN file[k] ELSE <<>>
\* The special-token lines of load: [special_tokens, err].
RECURSIVE LoadSpecials(_, _, _, _)
LoadSpecials(file, k, n, special_tokens) ==
    IF n <= 0 THEN [special_tokens |-> special_tokens, err |-> ""]
    ELSE LET fields == SplitWs(Strip(ReadLine(file, k)))
         IN  IF Len(fields) # 2 \/ ~IsInt(fields[2])
             THEN [special_tokens |-> special_tokens, err |-> "ValueError"]
             ELSE LoadSpecials(file, k + 1, n - 1,
                      DictSet(special_tokens, fields[1], StrToInt(fields[2])))
\* A reader of the merge lines that passes over a line it cannot parse.
RECURSIVE LoadMergesSkip(_, _, _, _)
LoadMergesSkip(file, k, idx, merges) ==
    IF k > Len(file) THEN [merges |-> merges, err |-> ""]
    ELSE LET fields == SplitWs(Strip(file[k]))
         IN  IF Len(fields) # 2 \/ ~IsInt(fields[1]) \/ ~IsInt(fields[2])
             THEN LoadMergesSkip(file, k + 1, idx, merges)
             ELSE LoadMergesSkip(file, k + 1, idx + 1,
                      DictSet(merges, <<StrToInt(fields[1]), StrToInt(fields[2])>>, idx))
\* The merge lines of load, idx counting from 256: [merges, err].
RECURSIVE LoadMerges(_, _, _, _)
LoadMerges(file, k, idx, merges) ==
    IF k > Len(file) THEN [merges |-> merges, err |-> ""]
    ELSE LET fields == SplitWs(Strip(file[k]))
         IN  IF Len(fields) # 2 \/ ~IsInt(fields[1]) \/ ~IsInt(fields[2])
             THEN [merges |-> merges, err |-> "ValueError"]
             ELSE LoadMerges(file, k + 1, idx + 1,
                      DictSet(merges, <<StrToInt(fields[1]), StrToInt(fields[2])>>, idx))
\* _build_vocab raises KeyError when a merge names an id no earlier entry defined.
BuildVocabRaises(merges) ==
    \E j \in 1..Len(merges) :
        \E x \in {merges[j][1][1], merges[j][1][2]} :
            x \notin ((0..255) \cup {merges[k][2] : k \in 1..(j - 1)})
\* The body of load after the file was opened:
\* [err, pattern_read, pattern, parsed, merges, special_tokens].
LoadFile(file) ==
    LET none == [err |-> "ValueError", pattern_read |-> FALSE, pattern |-> <<>>,
                 parsed |-> FALSE, merges |-> <<>>, special_tokens |-> <<>>]
        read == [none EXCEPT !.pattern_read = TRUE, !.pattern = Strip(ReadLine(file, 2))]
        num_special_str == Strip(ReadLine(file, 3))
    IN  IF Strip(ReadLine(file, 1)) # VersionTag THEN none
        ELSE IF ~IsInt(num_special_str) THEN read
        ELSE LET num_special == StrToInt(num_special_str)
                 sp == LoadSpecials(file, 4, num_special, <<>>)
                 mg == LoadMerges(file, 4 + (IF num_special > 0 THEN num_special ELSE 0),
                                  256, <<>>)
             IN  IF sp.err # "" THEN read
                 ELSE IF mg.err # "" THEN read
                 ELSE [read EXCEPT !.parsed = TRUE, !.merges = mg.merges,
                                   !.special_tokens = sp.special_tokens,
                                   !.err = IF BuildVocabRaises(mg.merges)
                                           THEN "KeyError" ELSE ""]


\* -------------------------------------------------------- GPT4Tokenizer
\* enc._mergeable_ranks (dict[bytes, int]) always holds the 256 single
\* bytes; it is stored as the entries of the single bytes whose rank is not
\* their own value, then the entries of the longer tokens in rank order
\* (RankHas and RankGet give the dict's view).
RankHas(mergeable_ranks, token) == Len(token) = 1 \/ DictHas(mergeable_ranks, token)
RankGet(mergeable_ranks, token) ==
    IF DictHas(mergeable_ranks, token) THEN DictGet(mergeable_ranks, token) ELSE token[1]
\* None, for min_idx, min_rank and max_rank.
None == -1

\* _byte_pair_encoding, "for i in range(len(parts) - 1)": <<min_idx, min_rank>>,
\* with min_idx counted from 1.
RECURSIVE MinRankFrom(_, _, _, _, _)
MinRankFrom(mergeable_ranks, parts, i, min_idx, min_rank) ==
    IF i > Len(parts) - 1 THEN <<min_idx, min_rank>>
    ELSE LET pair_bytes == parts[i] \o parts[i + 1]
         IN  IF RankHas(mergeable_ranks, pair_bytes)
                /\ (min_rank = None \/ RankGet(mergeable_ranks, pair_bytes) < min_rank)
             THEN MinRankFrom(mergeable_ranks, parts, i + 1, i,
                              RankGet(mergeable_ranks, pair_bytes))
             ELSE MinRankFrom(mergeable_ranks, parts, i + 1, min_idx, min_rank)
\* _byte_pair_encoding, "while True".
RECURSIVE BytePairLoop(_, _, _)
BytePairLoop(mergeable_ranks, parts, max_rank) ==
    LET m == MinRankFrom(mergeable_ranks, parts, 1, None, None)
        min_idx == m[1]
        min_rank == m[2]
    IN  IF min_rank = None \/ (max_rank # None /\ min_rank >= max_rank) THEN parts
        ELSE BytePairLoop(mergeable_ranks,
                 SubSeq(parts, 1, min_idx - 1)
                    \o <<parts[min_idx] \o parts[min_idx + 1]>>
                    \o SubSeq(parts, min_idx + 2, Len(parts)),
                 max_rank)
_byte_pair_encoding(mergeable_ranks, token, max_rank) ==
    BytePairLoop(mergeable_ranks, [j \in 1..Len(token) |-> <<token[j]>>], max_rank)

\* _recover_merges: [merges, err]. The message of the ValueError reads
\* len(pair), and pair is bound by the first token that was split in two.
RECURSIVE RecoverFrom(_, _, _, _)
RecoverFrom(mergeable_ranks, j, merges, pair_bound) ==
    IF j > Len(mergeable_ranks) THEN [merges |-> merges, err |-> ""]
    ELSE LET token == mergeable_ranks[j][1]
             rank == mergeable_ranks[j][2]
         IN  IF Len(token) = 1
             THEN RecoverFrom(mergeable_ranks, j + 1, merges, pair_bound)
             ELSE LET bpe_pair == _byte_pair_encoding(mergeable_ranks, token, rank)
                  IN  IF Len(bpe_pair) # 2
                      THEN [merges |-> merges,
                            err |-> IF pair_bound THEN "ValueError" ELSE "UnboundLocalError"]
                      ELSE RecoverFrom(mergeable_ranks, j + 1,
                               DictSet(merges,
                                       <<RankGet(mergeable_ranks, bpe_pair[1]),
                                         RankGet(mergeable_ranks, bpe_pair[2])>>,
                                       rank),
                               TRUE)
_recover_merges(mergeable_ranks) == RecoverFrom(mergeable_ranks, 1, <<>>, FALSE)

\* _build_byte_shuffle: byte -> rank of that single byte.
_build_byte_shuffle(ranks_tiktoken) == [i \in 0..255 |-> RankGet(ranks_tiktoken, <<i>>)]
\* _build_inverse_byte_shuffle: the loop body assigns into
\* self.inverse_byte_shuffle, the returned dict is the local, left empty.
\* has_attr: self already has an attribute inverse_byte_shuffle.
_build_inverse_byte_shuffle(byte_shuffle, has_attr) ==
    IF DOMAIN byte_shuffle # {} /\ ~has_attr
    THEN [value |-> <<>>, err |-> "AttributeError"]
    ELSE [value |-> <<>>, err |-> ""]

\* GPT4Tokenizer._encode_chunk: permute the bytes, then the inherited loop.
GPT4EncodeChunk(byte_shuffle, merges, text_bytes) ==
    _encode_chunk(merges, [j \in 1..Len(text_bytes) |-> byte_shuffle[text_bytes[j]]])
RECURSIVE GPT4EncodeChunks(_, _, _)
GPT4EncodeChunks(byte_shuffle, merges, text_chunks) ==
    IF text_chunks = <<>> THEN <<>>
    ELSE GPT4EncodeChunk(byte_shuffle, merges, Utf8Encode(Head(text_chunks)))
            \o GPT4EncodeChunks(byte_shuffle, merges, Tail(text_chunks))
\* encode_ordinary and encode as inherited, with the overridden _encode_chunk.
GPT4EncodeOrdinary(byte_shuffle, merges, text) ==
    GPT4EncodeChunks(byte_shuffle, merges, FindAll(GPT4_SPLIT_PATTERN, text))
RECURSIVE GPT4EncodeParts(_, _, _, _)
GPT4EncodeParts(byte_shuffle, merges, special, special_chunks) ==
    IF special_chunks = <<>> THEN <<>>
    ELSE LET part == Head(special_chunks)
         IN  (IF DictHas(special, part) THEN <<DictGet(special, part)>>
              ELSE GPT4EncodeOrdinary(byte_shuffle, merges, part))
                 \o GPT4EncodeParts(byte_shuffle, merges, special, Tail(special_chunks))
GPT4Encode(byte_shuffle, merges, specials, text, allowed_special) ==
    IF allowed_special = "none_raise" /\ \E j \in 1..Len(specials) : Contains(text, specials[j][1])
    THEN [ids |-> <<>>, err |-> "ValueError"]
    ELSE LET special == IF allowed_special = "all" THEN specials ELSE <<>>
         IN  IF special = <<>>
             THEN [ids |-> GPT4EncodeOrdinary(byte_shuffle, merges, text), err |-> ""]
             ELSE [ids |-> GPT4EncodeParts(byte_shuffle, merges, special,
                                           SplitFrom(special, text, 1, 1)),
                   err |-> ""]
\* GPT4Tokenizer.decode: self.vocab[idx] and self.inverse_byte_shuffle[b]
\* raise KeyError for a missing key; there is no special-token branch.
GPT4Decode(v, inverse_byte_shuffle, ids) ==
    IF \E j \in 1..Len(ids) : ~VocabHas(v, ids[j])
    THEN [out |-> <<>>, err |-> "KeyError"]
    ELSE LET text_bytes == Concat([j \in 1..Len(ids) |-> VocabGet(v, ids[j])])
         IN  IF \E j \in 1..Len(text_bytes) : ~DictHas(inverse_byte_shuffle, text_bytes[j])
             THEN [out |-> <<>>, err |-> "KeyError"]
             ELSE [out |-> Utf8Decode([j \in 1..Len(text_bytes) |->
                                          DictGet(inverse_byte_shuffle, text_bytes[j])]),
                   err |-> ""]
\* _GPT4_SPECIAL_TOKENS, "<|endoftext|>" shortened to "<e>" and
\* "<|endofprompt|>" to "<p>".
GPT4_SPECIAL_TOKENS ==
    << <<<<60, 101, 62>>, 100257>>, <<<<60, 112, 62>>, 100276>> >>


\* =============================================================== state
Toks == {1, 2}

VARIABLES
    kind,                    \* tokenizer -> "basic" | "regex" (its class)
    token_merges,            \* tokenizer -> self.token_merges
    vocab,                   \* tokenizer -> self.vocab
    special_tokens,          \* tokenizer -> self.special_tokens
    inverse_special_tokens,  \* tokenizer -> self.inverse_special_tokens
    pattern,                 \* tokenizer -> self.pattern
    compiled_pattern,        \* tokenizer -> the pattern self.compiled_pattern was built from
    pc,                      \* tokenizer -> "idle" | "loop" | "store" (inside train)
    tr,                      \* tokenizer -> the local variables of train
    fs,                      \* the model file on disk, a sequence of lines
    last,                    \* the last call that returned or raised
    gpt4,                    \* the GPT4Tokenizer under construction: the fields __init__ assigned
    pure                     \* arguments and result of a call of a helper

vars == <<kind, token_merges, vocab, special_tokens, inverse_special_tokens,
          pattern, compiled_pattern, pc, tr, fs, last, gpt4, pure>>
tok_vars == <<token_merges, vocab, special_tokens, inverse_special_tokens, pattern>>

NoTrain ==
    [text |-> <<>>, vocab_size |-> 0, num_merges |-> 0, i |-> 0, ids |-> <<>>,
     prev_ids |-> <<>>, merges |-> <<>>, vocab |-> BaseVocab, stats |-> <<>>,
     pair |-> <<>>, broke |-> FALSE]
NoLast ==
    [op |-> "", tok |-> 0, text |-> <<>>, allowed |-> "", allowed_set |-> {},
     ids |-> <<>>,
     out |-> <<>>, err |-> "", err_arg |-> <<>>, of_encode |-> FALSE, file |-> "",
     vocab_size |-> 0, iters |-> 0, broke |-> FALSE, train_ids |-> <<>>]
NoFile == <<>>
\* No GPT4Tokenizer() call was made yet.
NoGPT4 ==
    [state |-> "none", err |-> "", mergeable_ranks |-> <<>>, token_merges |-> <<>>,
     vocab |-> BaseVocab, byte_shuffle |-> <<>>, has_inverse |-> FALSE,
     inverse_byte_shuffle |-> <<>>, special_tokens |-> <<>>,
     inverse_special_tokens |-> <<>>, pattern |-> <<>>]
NoPure ==
    [fn |-> "", ids |-> <<>>, arg_ids |-> <<>>, pair |-> <<>>, new_token |-> 0,
     mergeable_ranks |-> <<>>, token |-> <<>>, max_rank |-> 0,
     token_merges |-> <<>>, special_tokens |-> <<>>, err |-> "", calls |-> 0,
     prev_result |-> <<>>,
     result |-> <<>>, returned |-> FALSE]

\* BaseTokenizer.__init__ and RegexTokenizer.__init__ (default pattern).
InitTokenizers(kinds, patterns) ==
    /\ kind = kinds
    /\ token_merges = [t \in Toks |-> <<>>]
    /\ vocab = [t \in Toks |-> _build_vocab(<<>>, <<>>)]
    /\ special_tokens = [t \in Toks |-> <<>>]
    /\ inverse_special_tokens = [t \in Toks |-> <<>>]
    /\ pattern = [t \in Toks |-> IF kinds[t] = "regex" THEN patterns[t] ELSE <<>>]
    /\ compiled_pattern = [t \in Toks |-> IF kinds[t] = "regex" THEN patterns[t] ELSE <<>>]
    /\ pc = [t \in Toks |-> "idle"]
    /\ tr = [t \in Toks |-> NoTrain]
    /\ fs = NoFile
    /\ last = NoLast
    /\ gpt4 = NoGPT4
\* Tokenizers constructed without a pattern argument.
InitKinds(kinds) == InitTokenizers(kinds, [t \in Toks |-> GPT4_SPLIT_PATTERN])

\* ------------------------------------------------- BasicTokenizer.train
\* A precondition check that lets 255 through.
VocabSizeOkOffByOne(vocab_size) == vocab_size >= 255
\* "if vocab_size < 256: raise ValueError" passes.
VocabSizeOk(vocab_size) == vocab_size >= 256

\* The locals of train before its loop: merges = {}, vocab = the 256 bytes.
BasicTrainLocals(t, text, vocab_size) ==
    [NoTrain EXCEPT !.text = text, !.vocab_size = vocab_size,
                    !.num_merges = vocab_size - 256,
                    !.ids = Utf8Encode(text)]

BasicTrainCall(t, text, vocab_size) ==
    /\ kind[t] = "basic" /\ pc[t] = "idle"
    /\ IF ~VocabSizeOk(vocab_size)
       THEN /\ last' = [NoLast EXCEPT !.op = "train", !.tok = t, !.text = text,
                                      !.vocab_size = vocab_size, !.err = "ValueError"]
            /\ UNCHANGED <<pc, tr>>
       ELSE /\ tr' = [tr EXCEPT ![t] = BasicTrainLocals(t, text, vocab_size)]
            /\ pc' = [pc EXCEPT ![t] = IF vocab_size - 256 > 0 THEN "loop" ELSE "store"]
            /\ last' = NoLast
    /\ UNCHANGED <<kind, gpt4, compiled_pattern, tok_vars, fs, pure>>

\* One pass through the body of "for i in range(num_merges)".
BasicTrainIter(t) ==
    /\ kind[t] = "basic" /\ pc[t] = "loop"
    /\ LET l == tr[t]
           stats == _get_stats(l.ids)
           mf == _get_most_frequent_pair(stats)
           idx == 256 + l.i
       IN  IF mf[2] <= 0 \/ mf[1] = <<>>
           THEN /\ tr' = [tr EXCEPT ![t] = [l EXCEPT !.stats = stats, !.broke = TRUE]]
                /\ pc' = [pc EXCEPT ![t] = "store"]
           ELSE /\ tr' = [tr EXCEPT ![t] =
                            [l EXCEPT !.stats = stats, !.pair = mf[1],
                                      !.prev_ids = l.ids,
                                      !.ids = _merge(l.ids, mf[1], idx),
                                      !.merges = DictSet(l.merges, mf[1], idx),
                                      !.vocab = VocabSet(l.vocab, idx,
                                                    VocabGet(l.vocab, mf[1][1])
                                                       \o VocabGet(l.vocab, mf[1][2])),
                                      !.i = l.i + 1]]
                /\ pc' = [pc EXCEPT ![t] = IF l.i + 1 < l.num_merges THEN "loop" ELSE "store"]
    /\ UNCHANGED <<kind, gpt4, compiled_pattern, tok_vars, fs, last, pure>>

\* "save class variables", then return.
BasicTrainStore(t) ==
    /\ kind[t] = "basic" /\ pc[t] = "store"
    /\ token_merges' = [token_merges EXCEPT ![t] = tr[t].merges]
    /\ vocab' = [vocab EXCEPT ![t] = tr[t].vocab]
    /\ tr' = [tr EXCEPT ![t] = NoTrain]
    /\ pc' = [pc EXCEPT ![t] = "idle"]
    /\ last' = [NoLast EXCEPT !.op = "train", !.tok = t, !.text = tr[t].text,
                              !.vocab_size = tr[t].vocab_size, !.iters = tr[t].i,
                              !.broke = tr[t].broke, !.train_ids = tr[t].ids]
    /\ UNCHANGED <<kind, gpt4, compiled_pattern, special_tokens, inverse_special_tokens, pattern, fs, pure>>

\* ------------------------------------------------- RegexTokenizer.train
RECURSIVE AddChunkStats(_, _, _)
AddChunkStats(stats, chunk_stats, j) ==
    IF j > Len(chunk_stats) THEN stats
    ELSE AddChunkStats(DictAdd(stats, chunk_stats[j][1], chunk_stats[j][2]),
                       chunk_stats, j + 1)
RECURSIVE ChunksStatsFrom(_, _, _)
ChunksStatsFrom(ids, c, stats) ==
    IF c > Len(ids) THEN stats
    ELSE ChunksStatsFrom(ids, c + 1, AddChunkStats(stats, _get_stats(ids[c]), 1))
\* Statistics taken over the chunks laid end to end.
ChunksStatsFlat(ids) == _get_stats(Concat(ids))
ChunksStats(ids) == ChunksStatsFrom(ids, 1, <<>>)

\* A train that goes on from the tokenizer's merges and vocabulary.
RegexTrainLocalsStale(t, text, vocab_size) ==
    LET text_chunks == FindAll(compiled_pattern[t], text)
    IN  [NoTrain EXCEPT !.text = text, !.vocab_size = vocab_size,
                        !.num_merges = vocab_size - 256,
                        !.ids = [c \in 1..Len(text_chunks) |-> Utf8Encode(text_chunks[c])],
                        !.merges = token_merges[t], !.vocab = vocab[t]]
\* The locals of train before its loop: the chunks' bytes, merges = {},
\* vocab = the 256 bytes.
RegexTrainLocals(t, text, vocab_size) ==
    LET text_chunks == FindAll(compiled_pattern[t], text)
    IN  [NoTrain EXCEPT !.text = text, !.vocab_size = vocab_size,
                        !.num_merges = vocab_size - 256,
                        !.ids = [c \in 1..Len(text_chunks) |-> Utf8Encode(text_chunks[c])]]

RegexTrainCall(t, text, vocab_size) ==
    /\ kind[t] = "regex" /\ pc[t] = "idle"
    /\ IF ~VocabSizeOk(vocab_size)
       THEN /\ last' = [NoLast EXCEPT !.op = "train", !.tok = t, !.text = text,
                                      !.vocab_size = vocab_size, !.err = "ValueError"]
            /\ UNCHANGED <<pc, tr>>
       ELSE /\ tr' = [tr EXCEPT ![t] = RegexTrainLocals(t, text, vocab_size)]
            /\ pc' = [pc EXCEPT ![t] = IF vocab_size - 256 > 0 THEN "loop" ELSE "store"]
            /\ last' = NoLast
    /\ UNCHANGED <<kind, gpt4, compiled_pattern, tok_vars, fs, pure>>

RegexTrainIter(t) ==
    /\ kind[t] = "regex" /\ pc[t] = "loop"
    /\ LET l == tr[t]
           stats == ChunksStats(l.ids)
           mf == _get_most_frequent_pair(stats)
           idx == 256 + l.i
       IN  IF mf[2] <= 0 \/ mf[1] = <<>>
           THEN /\ tr' = [tr EXCEPT ![t] = [l EXCEPT !.stats = stats, !.broke = TRUE]]
                /\ pc' = [pc EXCEPT ![t] = "store"]
           ELSE /\ tr' = [tr EXCEPT ![t] =
                            [l EXCEPT !.stats = stats, !.pair = mf[1],
                                      !.prev_ids = l.ids,
                                      !.ids = [c \in 1..Len(l.ids) |->
                                                  _merge(l.ids[c], mf[1], idx)],
                                      !.merges = DictSet(l.merges, mf[1], idx),
                                      !.vocab = VocabSet(l.vocab, idx,
                                                    VocabGet(l.vocab, mf[1][1])
                                                       \o VocabGet(l.vocab, mf[1][2])),
                                      !.i = l.i + 1]]
                /\ pc' = [pc EXCEPT ![t] = IF l.i + 1 < l.num_merges THEN "loop" ELSE "store"]
    /\ UNCHANGED <<kind, gpt4, compiled_pattern, tok_vars, fs, last, pure>>

RegexTrainStore(t) ==
    /\ kind[t] = "regex" /\ pc[t] = "store"
    /\ token_merges' = [token_merges EXCEPT ![t] = tr[t].merges]
    /\ vocab' = [vocab EXCEPT ![t] = tr[t].vocab]
    /\ tr' = [tr EXCEPT ![t] = NoTrain]
    /\ pc' = [pc EXCEPT ![t] = "idle"]
    /\ last' = [NoLast EXCEPT !.op = "train", !.tok = t, !.text = tr[t].text,
                              !.vocab_size = tr[t].vocab_size, !.iters = tr[t].i,
                              !.broke = tr[t].broke, !.train_ids = tr[t].ids]
    /\ UNCHANGED <<kind, gpt4, compiled_pattern, special_tokens, inverse_special_tokens, pattern, fs, pure>>

\* ------------------------------------------------------ encode, decode
BasicEncodeCall(t, text) ==
    /\ kind[t] = "basic" /\ pc[t] = "idle"
    /\ last' = [NoLast EXCEPT !.op = "encode", !.tok = t, !.text = text,
                              !.ids = BasicEncode(token_merges[t], text)]
    /\ UNCHANGED <<kind, gpt4, compiled_pattern, tok_vars, pc, tr, fs, pure>>

RegexEncodeCall(t, text, allowed_special) ==
    /\ kind[t] = "regex" /\ pc[t] = "idle"
    /\ LET r == RegexEncode(compiled_pattern[t], token_merges[t], special_tokens[t],
                            text, allowed_special)
       IN  last' = [NoLast EXCEPT !.op = "encode", !.tok = t, !.text = text,
                                  !.allowed = allowed_special,
                                  !.ids = r.ids, !.err = r.err,
                                  !.err_arg = IF allowed_special = "none_raise"
                                              THEN NoneRaiseLiteral(special_tokens[t], text)
                                              ELSE <<>>]
    /\ UNCHANGED <<kind, gpt4, compiled_pattern, tok_vars, pc, tr, fs, pure>>

\* encode(text, allowed_special) with a set of strings.
RegexEncodeSetCall(t, text, allowed_special) ==
    /\ kind[t] = "regex" /\ pc[t] = "idle"
    /\ LET r == RegexEncodeSet(compiled_pattern[t], token_merges[t], special_tokens[t],
                               text, allowed_special)
       IN  last' = [NoLast EXCEPT !.op = "encode", !.tok = t, !.text = text,
                                  !.allowed = "set", !.allowed_set = allowed_special,
                                  !.ids = r.ids, !.err = r.err]
    /\ UNCHANGED <<kind, gpt4, compiled_pattern, tok_vars, pc, tr, fs, pure>>

\* decode(ids) of the ids the last encode returned.
DecodeEncoded(t) ==
    /\ pc[t] = "idle"
    /\ last.op = "encode" /\ last.tok = t /\ last.err = ""
    /\ LET r == IF kind[t] = "basic" THEN BasicDecode(vocab[t], last.ids)
                ELSE RegexDecode(vocab[t], inverse_special_tokens[t], last.ids)
       IN  last' = [last EXCEPT !.op = "decode", !.out = r.out, !.err = r.err,
                                !.of_encode = TRUE]
    /\ UNCHANGED <<kind, gpt4, compiled_pattern, tok_vars, pc, tr, fs, pure>>

\* --------------------------------------------- register_special_tokens
\* inv_special_tokens[token_id] = token_str for each entry, in dict order.
RECURSIVE InverseFrom(_, _, _)
InverseFrom(specials, j, inv_special_tokens) ==
    IF j > Len(specials) THEN inv_special_tokens
    ELSE InverseFrom(specials, j + 1,
             DictSet(inv_special_tokens, specials[j][2], specials[j][1]))

\* A registration that also rebuilds the vocabulary with the new tokens.
RegisterRebuilding(t, specials) ==
    /\ kind[t] = "regex" /\ pc[t] = "idle"
    /\ special_tokens' = [special_tokens EXCEPT ![t] = specials]
    /\ inverse_special_tokens' =
          [inverse_special_tokens EXCEPT ![t] = InverseFrom(specials, 1, <<>>)]
    /\ vocab' = [vocab EXCEPT ![t] = _build_vocab(token_merges[t], specials)]
    /\ last' = [NoLast EXCEPT !.op = "register", !.tok = t]
    /\ UNCHANGED <<kind, gpt4, compiled_pattern, token_merges, pattern, pc, tr, fs, pure>>

register_special_tokens(t, specials) ==
    /\ kind[t] = "regex" /\ pc[t] = "idle"
    /\ special_tokens' = [special_tokens EXCEPT ![t] = specials]
    /\ inverse_special_tokens' =
          [inverse_special_tokens EXCEPT ![t] = InverseFrom(specials, 1, <<>>)]
    /\ last' = [NoLast EXCEPT !.op = "register", !.tok = t]
    /\ UNCHANGED <<kind, gpt4, compiled_pattern, token_merges, vocab, pattern, pc, tr, fs, pure>>

\* ----------------------------------------------------------- save, load
\* save(save_dir, file_prefix). The vocab file it also writes is for
\* reading by people; no operation reads it back.
save(t, dir_exists) ==
    /\ pc[t] = "idle"
    /\ IF ~dir_exists
       THEN /\ last' = [NoLast EXCEPT !.op = "save", !.tok = t, !.err = "FileNotFoundError"]
            /\ UNCHANGED fs
       ELSE /\ fs' = ModelFileLines(token_merges[t], special_tokens[t])
            /\ last' = [NoLast EXCEPT !.op = "save", !.tok = t]
    /\ UNCHANGED <<kind, gpt4, compiled_pattern, tok_vars, pc, tr, pure>>

FileNames == {"tok.model", "tok.vocab"}
\* load(model_path, model_filename): fields are assigned as the lines are
\* read; compiled_pattern and inverse_special_tokens are never assigned.
load(t, model_filename) ==
    /\ pc[t] = "idle"
    /\ LET bad == model_filename # "tok.model"
           missing == fs = NoFile
           r == LoadFile(fs)
           err == IF bad THEN "ValueError"
                  ELSE IF missing THEN "FileNotFoundError" ELSE r.err
           opened == ~bad /\ ~missing
       IN  /\ pattern' = IF opened /\ r.pattern_read
                         THEN [pattern EXCEPT ![t] = r.pattern] ELSE pattern
           /\ token_merges' = IF opened /\ r.parsed
                              THEN [token_merges EXCEPT ![t] = r.merges] ELSE token_merges
           /\ special_tokens' = IF opened /\ r.parsed
                                THEN [special_tokens EXCEPT ![t] = r.special_tokens]
                                ELSE special_tokens
           /\ vocab' = IF opened /\ r.parsed /\ r.err = ""
                       THEN [vocab EXCEPT ![t] = _build_vocab(r.merges, r.special_tokens)]
                       ELSE vocab
           /\ last' = [NoLast EXCEPT !.op = "load", !.tok = t, !.err = err,
                                     !.file = model_filename]
    /\ UNCHANGED <<kind, gpt4, compiled_pattern, inverse_special_tokens, pc, tr, fs, pure>>

\* decode(ids) of any id sequence.
DecodeCall(t, ids) ==
    /\ pc[t] = "idle"
    /\ LET r == IF kind[t] = "basic" THEN BasicDecode(vocab[t], ids)
                ELSE RegexDecode(vocab[t], inverse_special_tokens[t], ids)
           bad == IF kind[t] = "basic" THEN BasicDecodeBadId(vocab[t], ids)
                  ELSE RegexDecodeBadId(vocab[t], inverse_special_tokens[t], ids)
       IN  last' = [NoLast EXCEPT !.op = "decode", !.tok = t, !.ids = ids,
                                  !.out = r.out, !.err = r.err, !.err_arg = bad]
    /\ UNCHANGED <<kind, gpt4, compiled_pattern, tok_vars, pc, tr, fs, pure>>

\* ------------------------------------------------ GPT4Tokenizer.__init__
\* GPT4Tokenizer() with enc._mergeable_ranks = mergeable_ranks. The
\* statements run in order; the first exception ends the call and leaves the
\* fields assigned so far.
GPT4Init(mergeable_ranks) ==
    /\ LET base == [NoGPT4 EXCEPT !.mergeable_ranks = mergeable_ranks,
                                  !.pattern = GPT4_SPLIT_PATTERN]
           rec == _recover_merges(mergeable_ranks)
           g1 == [base EXCEPT !.token_merges = rec.merges]
           g2 == [g1 EXCEPT !.vocab = _build_vocab(rec.merges, <<>>)]
           g3 == [g2 EXCEPT !.byte_shuffle = _build_byte_shuffle(mergeable_ranks)]
           inv == _build_inverse_byte_shuffle(g3.byte_shuffle, g3.has_inverse)
           g4 == [g3 EXCEPT !.has_inverse = TRUE, !.inverse_byte_shuffle = inv.value]
           g5 == [g4 EXCEPT !.special_tokens = GPT4_SPECIAL_TOKENS,
                            !.inverse_special_tokens =
                                InverseFrom(GPT4_SPECIAL_TOKENS, 1, <<>>)]
       IN  gpt4' = IF rec.err # ""
                   THEN [base EXCEPT !.state = "raised", !.err = rec.err]
                   ELSE IF BuildVocabRaises(rec.merges)
                   THEN [g1 EXCEPT !.state = "raised", !.err = "KeyError"]
                   ELSE IF inv.err # ""
                   THEN [g3 EXCEPT !.state = "raised", !.err = inv.err]
                   ELSE [g5 EXCEPT !.state = "ready"]
    /\ UNCHANGED <<kind, compiled_pattern, tok_vars, pc, tr, fs, last, pure>>

\* _byte_pair_encoding(mergeable_ranks, token, max_rank) as a function.
BytePairEncodingCall ==
    /\ pure.fn = "_byte_pair_encoding" /\ ~pure.returned
    /\ pure' = [pure EXCEPT !.result = _byte_pair_encoding(pure.mergeable_ranks,
                                                           pure.token, pure.max_rank),
                            !.returned = TRUE]
    /\ UNCHANGED <<kind, gpt4, compiled_pattern, tok_vars, pc, tr, fs, last>>

\* Some writer other than save leaves a model file on disk (or removes it).
WriteFile(file) ==
    /\ fs' = file
    /\ last' = [NoLast EXCEPT !.op = "write"]
    /\ UNCHANGED <<kind, gpt4, compiled_pattern, tok_vars, pc, tr, pure>>

\* ----------------------------------------------------- specifications
Kinds == {"basic", "regex"}

Init == (\E k \in Kinds : InitKinds(<<k, "regex">>)) /\ pure = NoPure

Next ==
    \/ \E text \in Texts, vocab_size \in VocabSizes : BasicTrainCall(1, text, vocab_size)
    \/ BasicTrainIter(1)
    \/ BasicTrainStore(1)
    \/ \E text \in Texts, vocab_size \in VocabSizes : RegexTrainCall(1, text, vocab_size)
    \/ RegexTrainIter(1)
    \/ RegexTrainStore(1)
    \/ \E text \in Texts : BasicEncodeCall(1, text)
    \/ \E text \in Texts : RegexEncodeCall(1, text, "none_raise")
    \/ DecodeEncoded(1)

Spec == Init /\ [][Next]_vars


\* ------------------------------------------- special tokens round trip
\* The mappings register_special_tokens is called with: none; "ab" with a
\* free id, with the id of byte "b", with the first merge id; "a" and "ab"
\* in both orders; "a" and "b" under one id; "a b"; " a".
SpecialMaps ==
    { <<>>,
      << <<<<97, 98>>, 300>> >>,
      << <<<<97, 98>>, 98>> >>,
      << <<<<97, 98>>, 256>> >>,
      << <<<<97>>, 300>>, <<<<97, 98>>, 301>> >>,
      << <<<<97, 98>>, 301>>, <<<<97>>, 300>> >>,
      << <<<<97>>, 300>>, <<<<98>>, 300>> >>,
      << <<<<97, 32, 98>>, 300>> >>,
      << <<<<32, 97>>, 300>> >> }
SpecialTrainTexts == {<<97, 97>>, <<97, 98>>}
SpecialVocabSizes == 256 .. (256 + MaxSpecialMerges)

InitSpecial == InitKinds(<<"regex", "regex">>) /\ pure = NoPure
NextSpecial ==
    \/ \E text \in SpecialTrainTexts, vocab_size \in SpecialVocabSizes :
          RegexTrainCall(1, text, vocab_size)
    \/ RegexTrainIter(1)
    \/ RegexTrainStore(1)
    \/ \E specials \in SpecialMaps : register_special_tokens(1, specials)
    \/ \E text \in Texts : RegexEncodeCall(1, text, "all")
    \/ DecodeEncoded(1)
SpecSpecial == InitSpecial /\ [][NextSpecial]_vars

\* ------------------------------------------------------ save then load
\* Tokenizer 1 is trained, given special tokens and saved; tokenizer 2 is a
\* freshly constructed RegexTokenizer that loads the file.
FileSpecialMaps ==
    { <<>>,
      << <<<<97, 98>>, 300>> >>,
      << <<<<97, 98>>, 98>> >>,
      << <<<<97, 32, 98>>, 300>> >>,
      << <<<<32, 97>>, 300>> >> }
FileTrainTexts == {<<97, 97>>, <<98, 32, 98, 32>>}

InitFile ==
    /\ \E p1 \in Patterns : InitTokenizers(<<"regex", "regex">>, <<p1, GPT4_SPLIT_PATTERN>>)
    /\ pure = NoPure
NextFile ==
    \/ \E text \in FileTrainTexts, vocab_size \in SpecialVocabSizes :
          RegexTrainCall(1, text, vocab_size)
    \/ RegexTrainIter(1)
    \/ RegexTrainStore(1)
    \/ \E specials \in FileSpecialMaps : register_special_tokens(1, specials)
    \/ \E dir_exists \in BOOLEAN : save(1, dir_exists)
    \/ \E model_filename \in FileNames : load(2, model_filename)
SpecFile == InitFile /\ [][NextFile]_vars

\* -------------------------------------------------- two runs of train
\* "aab" (two pairs of equal count), "a a" (two chunks), "aaaa".
DetTexts == {<<97, 97, 98>>, <<97, 32, 97>>, <<97, 97, 97, 97>>}
DetVocabSizes == 256 .. (256 + MaxDetMerges)
DetSpecialMaps == { <<>>, << <<<<97, 98>>, 256>> >> }

InitDet == (\E k \in Kinds : InitKinds(<<k, k>>)) /\ pure = NoPure
NextDet ==
    \E t \in Toks :
        \/ \E text \in DetTexts, vocab_size \in DetVocabSizes :
              BasicTrainCall(t, text, vocab_size)
        \/ BasicTrainIter(t)
        \/ BasicTrainStore(t)
        \/ \E text \in DetTexts, vocab_size \in DetVocabSizes :
              RegexTrainCall(t, text, vocab_size)
        \/ RegexTrainIter(t)
        \/ RegexTrainStore(t)
        \/ \E specials \in DetSpecialMaps : register_special_tokens(t, specials)
SpecDet == InitDet /\ [][NextDet]_vars

\* ------------------------------------------------ _merge as a function
MergeIds == {97, 98}
InitMerge ==
    /\ InitKinds(<<"basic", "regex">>)
    /\ \E ids \in SeqsUpTo(MergeIds, MaxMergeLen), p0 \in MergeIds, p1 \in MergeIds :
          pure = [NoPure EXCEPT !.fn = "_merge", !.ids = ids, !.arg_ids = ids,
                                !.pair = <<p0, p1>>, !.new_token = 256]
\* The call: the result is a new list, the argument list is never written.
MergeCall ==
    /\ pure.fn = "_merge" /\ ~pure.returned
    /\ pure' = [pure EXCEPT !.result = _merge(pure.ids, pure.pair, pure.new_token),
                            !.returned = TRUE]
    /\ UNCHANGED <<kind, gpt4, compiled_pattern, tok_vars, pc, tr, fs, last>>
NextMerge == MergeCall
SpecMerge == InitMerge /\ [][NextMerge]_vars


\* ------------------------------------------------------- decode of ids
\* A tokenizer of either class is trained, a RegexTokenizer is given
\* special tokens, and decode is called with ids in and outside its tables;
\* GPT4Tokenizer() is called with a rank table.
DecodeSpecialMaps ==
    { <<>>,
      << <<<<97, 98>>, 300>> >>,
      << <<<<97, 98>>, 256>> >>,
      << <<<<97>>, 300>>, <<<<97, 98>>, 302>> >> }
DecodeIds == {97, 256, 300, 301}
DecodeIdSeqs == SeqsUpTo(DecodeIds, MaxLen)

\* The rank of the single bytes: every byte its own value; "a" and "b"
\* exchanged; "a" -> 98, "b" -> 99, "c" -> 97.
ByteRanks ==
    { <<>>,
      << <<<<97>>, 98>>, <<<<98>>, 97>> >>,
      << <<<<97>>, 98>>, <<<<98>>, 99>>, <<<<99>>, 97>> >> }
\* The longer tokens: none; "aa"; "ab", "aba"; "aa", "ab", "aab";
\* " a", " aa"; and two tables with a token that no two ranked parts make up:
\* "abab" alone, and "ab", "aaa".
TokenRanks ==
    { <<>>,
      << <<<<97, 97>>, 256>> >>,
      << <<<<97, 98>>, 256>>, <<<<97, 98, 97>>, 257>> >>,
      << <<<<97, 97>>, 256>>, <<<<97, 98>>, 257>>, <<<<97, 97, 98>>, 258>> >>,
      << <<<<32, 97>>, 256>>, <<<<32, 97, 97>>, 257>> >>,
      << <<<<97, 98, 97, 98>>, 256>> >>,
      << <<<<97, 98>>, 256>>, <<<<97, 97, 97>>, 257>> >> }
RankTables == {b \o m : b \in ByteRanks, m \in TokenRanks}

\* The rank tables of the GPT4Tokenizer() call made next to the decode calls.
DecodeRankTables == {b \o m : b \in ByteRanks, m \in {<<>>, << <<<<97, 97>>, 256>> >>}}

InitDecode == (\E k \in Kinds : InitKinds(<<k, "regex">>)) /\ pure = NoPure
NextDecode ==
    \/ \E text \in SpecialTrainTexts, vocab_size \in SpecialVocabSizes :
          BasicTrainCall(1, text, vocab_size)
    \/ BasicTrainIter(1)
    \/ BasicTrainStore(1)
    \/ \E text \in SpecialTrainTexts, vocab_size \in SpecialVocabSizes :
          RegexTrainCall(1, text, vocab_size)
    \/ RegexTrainIter(1)
    \/ RegexTrainStore(1)
    \/ \E specials \in DecodeSpecialMaps : register_special_tokens(1, specials)
    \/ \E ids \in DecodeIdSeqs : DecodeCall(1, ids)
    \/ gpt4.state = "none" /\ \E mergeable_ranks \in DecodeRankTables : GPT4Init(mergeable_ranks)
SpecDecode == InitDecode /\ [][NextDecode]_vars

\* --------------------------------------------- special-token policies
\* A RegexTokenizer is trained, given special tokens, and encode is called
\* with each policy string and with sets of strings.
AllowedSets == {{}, {<<97>>}, {<<97, 98>>}, {<<97>>, <<97, 98>>}, {<<98, 98>>}}
InitPolicy == InitKinds(<<"regex", "regex">>) /\ pure = NoPure
NextPolicy ==
    \/ \E text \in SpecialTrainTexts, vocab_size \in SpecialVocabSizes :
          RegexTrainCall(1, text, vocab_size)
    \/ RegexTrainIter(1)
    \/ RegexTrainStore(1)
    \/ \E specials \in SpecialMaps : register_special_tokens(1, specials)
    \/ \E text \in Texts, allowed_special \in Policies :
          RegexEncodeCall(1, text, allowed_special)
    \/ \E text \in Texts, allowed_special \in AllowedSets :
          RegexEncodeSetCall(1, text, allowed_special)
SpecPolicy == InitPolicy /\ [][NextPolicy]_vars

\* ------------------------------------------------- load of a model file
\* A tokenizer of either class is trained, a RegexTokenizer is given special
\* tokens, and load is called on a file some writer left on disk.
\* The lines of the files, as code points: "minbpe v2", "minbpe v1 ", "\s+",
\* "0", "1", "x", "-1", "ab 300", "a b 300", "ab", "ab cd", "97 97",
\* "256 98", "97", "97 97 97", "97 x", "300 97", "-1 97".
TagV2 == <<109, 105, 110, 98, 112, 101, 32, 118, 50>>
TagPadded == VersionTag \o <<32>>
L_0 == <<48>>
L_1 == <<49>>
L_x == <<120>>
L_neg1 == <<45, 49>>
L_ab_300 == <<97, 98, 32, 51, 48, 48>>
L_a_b_300 == <<97, 32, 98, 32, 51, 48, 48>>
L_ab == <<97, 98>>
L_ab_cd == <<97, 98, 32, 99, 100>>
L_97_97 == <<57, 55, 32, 57, 55>>
L_256_98 == <<50, 53, 54, 32, 57, 56>>
L_97 == <<57, 55>>
L_97_97_97 == <<57, 55, 32, 57, 55, 32, 57, 55>>
L_97_x == <<57, 55, 32, 120>>
L_300_97 == <<51, 48, 48, 32, 57, 55>>
L_neg1_97 == <<45, 49, 32, 57, 55>>
LoadFiles ==
    { NoFile,
      <<VersionTag, <<>>, L_0>>,
      <<VersionTag, <<>>, L_0, L_97_97, L_256_98>>,
      <<VersionTag, GPT4_SPLIT_PATTERN, L_1, L_ab_300, L_97_97>>,
      <<TagPadded, <<>>, L_0, L_97_97>>,
      <<TagV2, <<>>, L_0, L_97_97>>,
      <<L_97_97>>,
      <<VersionTag, WholePattern, L_x>>,
      <<VersionTag, WholePattern, L_neg1, L_97_97>>,
      <<VersionTag, <<>>, L_1, L_a_b_300, L_97_97>>,
      <<VersionTag, <<>>, L_1, L_ab>>,
      <<VersionTag, <<>>, L_1, L_ab_cd>>,
      <<VersionTag, WholePattern, L_1>>,
      <<VersionTag, <<>>, L_0, L_97>>,
      <<VersionTag, <<>>, L_0, L_97_97, L_97_97_97>>,
      <<VersionTag, WholePattern, L_1, L_ab_300, L_97_97, L_97_x>>,
      <<VersionTag, <<>>, L_0, L_97_97, <<>>, L_256_98>>,
      <<VersionTag, <<>>, L_0, L_300_97>>,
      <<VersionTag, <<>>, L_0, L_neg1_97>> }
LoadSpecialMaps == { <<>>, << <<<<97, 98>>, 301>> >> }

InitLoad ==
    /\ \E k \in Kinds : InitKinds(<<k, "regex">>)
    /\ pure = NoPure
NextLoad ==
    \/ \E text \in SpecialTrainTexts, vocab_size \in SpecialVocabSizes :
          BasicTrainCall(1, text, vocab_size)
    \/ BasicTrainIter(1)
    \/ BasicTrainStore(1)
    \/ \E text \in SpecialTrainTexts, vocab_size \in SpecialVocabSizes :
          RegexTrainCall(1, text, vocab_size)
    \/ RegexTrainIter(1)
    \/ RegexTrainStore(1)
    \/ \E specials \in LoadSpecialMaps : register_special_tokens(1, specials)
    \/ \E file \in LoadFiles : WriteFile(file)
    \/ \E model_filename \in FileNames : load(1, model_filename)
SpecLoad == InitLoad /\ [][NextLoad]_vars

\* ------------------------------------------- GPT4Tokenizer construction
RankTokens == {<<97, 97>>, <<97, 98, 97>>, <<97, 97, 98>>, <<32, 97, 97>>, <<97, 98, 97, 98>>}
MaxRanks == {None, 256, 257, 258}
InitGPT4 ==
    /\ InitKinds(<<"basic", "regex">>)
    /\ \E mergeable_ranks \in RankTables, token \in RankTokens, max_rank \in MaxRanks :
          pure = [NoPure EXCEPT !.fn = "_byte_pair_encoding",
                                !.mergeable_ranks = mergeable_ranks,
                                !.token = token, !.max_rank = max_rank]
NextGPT4 ==
    \/ gpt4.state = "none" /\ \E mergeable_ranks \in RankTables : GPT4Init(mergeable_ranks)
    \/ BytePairEncodingCall
SpecGPT4 == InitGPT4 /\ [][NextGPT4]_vars


\* -------------------------------------------- _build_vocab as a function
MaxBuildMerges == 2
\* The ids a merge of the table names: "a", "b", the first two merge ids.
BuildPairIds == {97, 98, 256, 257}
BuildPairs == {<<p0, p1>> : p0 \in BuildPairIds, p1 \in BuildPairIds}
\* Merge tables with the ids 256, 257, ... in table order.
RECURSIVE BuildTablesUpTo(_)
BuildTablesUpTo(n) ==
    IF n = 0 THEN {<<>>}
    ELSE LET shorter == BuildTablesUpTo(n - 1)
         IN  shorter \cup
             UNION {{Append(m, <<p, 256 + Len(m)>>) : p \in BuildPairs \ DictKeys(m)}
                       : m \in {x \in shorter : Len(x) = n - 1}}
\* And the tables load leaves when a merge line occurs twice: (97, 97) -> 257
\* with no id 256, alone and followed by (257, 98) -> 258.
BuildMergeTables ==
    BuildTablesUpTo(MaxBuildMerges)
       \cup { << <<<<97, 97>>, 257>> >>,
              << <<<<97, 97>>, 257>>, <<<<257, 98>>, 258>> >> }
\* Special tokens: none; "ab" with a free id, with the id of byte "b", with
\* the first merge id; "a" and "b" under one id; "é".
BuildSpecialMaps ==
    { <<>>,
      << <<<<97, 98>>, 300>> >>,
      << <<<<97, 98>>, 98>> >>,
      << <<<<97, 98>>, 256>> >>,
      << <<<<97>>, 300>>, <<<<98>>, 300>> >>,
      << <<<<233>>, 300>> >> }
InitVocab ==
    /\ InitKinds(<<"basic", "regex">>)
    /\ \E merges \in BuildMergeTables, specials \in BuildSpecialMaps :
          pure = [NoPure EXCEPT !.fn = "_build_vocab", !.token_merges = merges,
                                !.special_tokens = specials]
\* self._build_vocab() on an object with these token_merges and
\* special_tokens; vocab[p0] raises KeyError for an id that has no entry yet.
BuildVocabCall ==
    /\ pure.fn = "_build_vocab" /\ pure.calls < 2
    /\ LET raises == BuildVocabRaises(pure.token_merges)
       IN  pure' = [pure EXCEPT !.prev_result = pure.result,
                                !.result = IF raises THEN <<>>
                                           ELSE _build_vocab(pure.token_merges,
                                                             pure.special_tokens),
                                !.err = IF raises THEN "KeyError" ELSE "",
                                !.calls = pure.calls + 1,
                                !.returned = TRUE]
    /\ UNCHANGED <<kind, gpt4, compiled_pattern, tok_vars, pc, tr, fs, last>>
NextVocab == BuildVocabCall
SpecVocab == InitVocab /\ [][NextVocab]_vars

\* ------------------------------------------- _encode_chunk as a function
\* The merge tables a train or a load can leave: ids 256, 257, ... in table
\* order, every id a merge names defined by an earlier merge.
EncodeMergeTables == {m \in BuildTablesUpTo(MaxBuildMerges) : ~BuildVocabRaises(m)}
\* The bytes of a chunk: "a" and "b".
EncodeBytes == SeqsUpTo(MergeIds, MaxMergeLen)
InitEncode ==
    /\ InitKinds(<<"basic", "regex">>)
    /\ \E merges \in EncodeMergeTables, text_bytes \in EncodeBytes :
          pure = [NoPure EXCEPT !.fn = "_encode_chunk", !.token_merges = merges,
                                !.ids = text_bytes, !.arg_ids = text_bytes]
\* self._encode_chunk(text_bytes) on an object with these token_merges; the
\* loop of BasicTokenizer.encode is the same.
EncodeChunkCall ==
    /\ pure.fn = "_encode_chunk" /\ ~pure.returned
    /\ pure' = [pure EXCEPT !.result = _encode_chunk(pure.token_merges, pure.ids),
                            !.returned = TRUE]
    /\ UNCHANGED <<kind, gpt4, compiled_pattern, tok_vars, pc, tr, fs, last>>
NextEncode == EncodeChunkCall
SpecEncode == InitEncode /\ [][NextEncode]_vars


\* ============================================================== claims
Range(f) == {f[x] : x \in DOMAIN f}
RECURSIVE SumSeq(_)
SumSeq(ns) == IF ns = <<>> THEN 0 ELSE Head(ns) + SumSeq(Tail(ns))

\* encode(text) and decode(ids) of tokenizer t in its current state.
EncodeOf(t, text) ==
    IF kind[t] = "basic" THEN [ids |-> BasicEncode(token_merges[t], text), err |-> ""]
    ELSE RegexEncode(compiled_pattern[t], token_merges[t], special_tokens[t],
                     text, "none_raise")
DecodeOf(t, ids) ==
    IF kind[t] = "basic" THEN BasicDecode(vocab[t], ids)
    ELSE RegexDecode(vocab[t], inverse_special_tokens[t], ids)

\* C1: a BasicTokenizer or RegexTokenizer that was constructed and trained
\* any number of times, with no special tokens registered, decodes the ids
\* encode returns for a text back to exactly that text: for every text, in
\* every state in which it can be called, and in every recorded
\* encode-then-decode.
C1_RoundTrip ==
    /\ \A t \in Toks : pc[t] = "idle" =>
          \A text \in Texts :
              LET e == EncodeOf(t, text)
              IN  e.err = "" /\ DecodeOf(t, e.ids) = [out |-> text, err |-> ""]
    /\ (last.op = "decode" /\ last.of_encode) => (last.err = "" /\ last.out = last.text)
\* A decode of an encoding in which merges were applied across several chunks.
C1_Witness ==
    /\ last.op = "decode" /\ last.of_encode /\ last.out = last.text
    /\ kind[last.tok] = "regex"
    /\ last.text = <<97, 32, 32, 98>>
    /\ Len(last.ids) < Len(last.text)

\* The special-token ids are the caller's to reserve: pairwise distinct and
\* no id of the vocabulary; a literal is not empty.
SpecialsReserved(t) ==
    \A j \in 1..Len(special_tokens[t]) :
        /\ special_tokens[t][j][1] # <<>>
        /\ ~VocabHas(vocab[t], special_tokens[t][j][2])
        /\ \A k \in 1..Len(special_tokens[t]) :
              special_tokens[t][k][2] = special_tokens[t][j][2] => k = j
\* register_special_tokens was the last to set the special tokens of t.
Registered(t) ==
    /\ kind[t] = "regex" /\ pc[t] = "idle"
    /\ inverse_special_tokens[t] = InverseFrom(special_tokens[t], 1, <<>>)
EncodeAll(t, text) ==
    RegexEncode(compiled_pattern[t], token_merges[t], special_tokens[t], text, "all")
SpecialRoundTrip(t) ==
    \A text \in Texts :
        LET e == EncodeAll(t, text)
        IN  e.err = "" /\ DecodeOf(t, e.ids) = [out |-> text, err |-> ""]

\* C2 as stated: with any mapping registered, decode(encode(text, "all"))
\* is text.
C2_Original ==
    /\ \A t \in Toks : Registered(t) => SpecialRoundTrip(t)
    /\ (last.op = "decode" /\ last.of_encode /\ last.allowed = "all") =>
          (last.err = "" /\ last.out = last.text)

\* C2 (amended): on a RegexTokenizer on which register_special_tokens(S)
\* was called, decode(encode(text, allowed_special="all")) returns text for
\* every text, provided the ids of S are pairwise distinct and none of them
\* is an id of the vocabulary (a byte id or a merge id).
C2_SpecialRoundTrip ==
    /\ \A t \in Toks : (Registered(t) /\ SpecialsReserved(t)) => SpecialRoundTrip(t)
    /\ (last.op = "decode" /\ last.of_encode /\ last.allowed = "all"
          /\ SpecialsReserved(last.tok)) =>
          (last.err = "" /\ last.out = last.text)
\* A decode of ids that hold a special id next to a merge id.
C2_Witness ==
    /\ last.op = "decode" /\ last.of_encode /\ last.allowed = "all"
    /\ SpecialsReserved(last.tok) /\ last.out = last.text
    /\ token_merges[last.tok] # <<>>
    /\ \E j \in 1..Len(last.ids) : last.ids[j] = 300
    /\ \E j \in 1..Len(last.ids) : last.ids[j] = 256

\* The model file on disk is the one tokenizer 1 writes in its present state.
SavedFrom(t) ==
    /\ pc[t] = "idle" /\ token_merges[t] # <<>>
    /\ fs = ModelFileLines(token_merges[t], special_tokens[t])
\* C4 as stated: for a trained RegexTokenizer with any special tokens
\* registered, save then load into a fresh RegexTokenizer gives the same
\* merge table and special tokens, encode(text, "all") agrees on both for
\* every text, and the loaded tokenizer decodes those ids to the text.
C4_Original ==
    (last.op = "load" /\ last.file = "tok.model" /\ SavedFrom(1)) =>
        /\ last.err = ""
        /\ token_merges[last.tok] = token_merges[1]
        /\ special_tokens[last.tok] = special_tokens[1]
        /\ \A text \in Texts :
              /\ EncodeAll(last.tok, text) = EncodeAll(1, text)
              /\ DecodeOf(last.tok, EncodeAll(1, text).ids) = [out |-> text, err |-> ""]
\* A load of the file of a trained tokenizer that raised.
C4_Witness ==
    /\ last.op = "load" /\ last.file = "tok.model" /\ SavedFrom(1)
    /\ last.err = "ValueError"
    /\ special_tokens[1] # <<>> /\ special_tokens[last.tok] = <<>>

\* The ids the trainer held when the last train returned, as one sequence.
TrainerIds == IF kind[last.tok] = "basic" THEN last.train_ids ELSE Concat(last.train_ids)
SingleChunk(t, text) == kind[t] = "basic" \/ FindAll(compiled_pattern[t], text) = <<text>>
WikiIds == <<258, 100, 258, 97, 99>>
TrainedWiki == last.op = "train" /\ last.err = "" /\ last.text = WikiText /\ last.vocab_size = 259

MatchStarts(ids, pair) ==
    LET m[p \in 0..Len(ids)] ==
            IF p = 0 THEN FALSE
            ELSE p < Len(ids) /\ <<ids[p], ids[p + 1]>> = pair /\ ~m[p - 1]
    IN  {p \in 1..Len(ids) : m[p]}
\* C5: _merge(ids, pair, new) is ids with each occurrence of the pair found
\* by one left-to-right non-overlapping scan replaced by new (both matched
\* positions consumed, an inserted id never matched again in the pass);
\* [97,97,97] with (97,97)->256 gives [256,97]; the argument is unchanged.
C5_MergeNonOverlap ==
    (pure.fn = "_merge" /\ pure.returned) =>
        LET ids == pure.arg_ids
            M == MatchStarts(ids, pure.pair)
            kept == {p \in 1..Len(ids) : (p - 1) \notin M}
            pos(p) == Cardinality({q \in kept : q <= p})
        IN  /\ Len(pure.result) = Len(ids) - Cardinality(M)
            /\ \A p \in kept :
                  pure.result[pos(p)] = IF p \in M THEN pure.new_token ELSE ids[p]
            /\ pure.ids = pure.arg_ids
            /\ (ids = <<97, 97, 97>> /\ pure.pair = <<97, 97>>) => pure.result = <<256, 97>>
C5_Witness ==
    /\ pure.fn = "_merge" /\ pure.returned
    /\ pure.arg_ids = <<97, 97, 97>> /\ pure.pair = <<97, 97>>
    /\ pure.result = <<256, 97>>

\* The sequences a training iteration counts pairs in, and the count of q.
ChunksOf(t, ids) == IF kind[t] = "basic" THEN <<ids>> ELSE ids
AdjCount(ids, q) == Cardinality({i \in 1..(Len(ids) - 1) : <<ids[i], ids[i + 1]>> = q})
TotalCount(chunks, q) == SumSeq([c \in 1..Len(chunks) |-> AdjCount(chunks[c], q)])
AdjPairs(chunks) ==
    UNION {{<<chunks[c][i], chunks[c][i + 1]>> : i \in 1..(Len(chunks[c]) - 1)} :
              c \in 1..Len(chunks)}
SameTrain(t, u) == kind[t] = kind[u] /\ compiled_pattern[t] = compiled_pattern[u]
\* C7: two runs of train (of the same tokenizer class) with the same text
\* and vocab_size, started from any two tokenizer states, end with the same
\* merge table (pairs, ids, order), the same vocabulary and the same ids:
\* a run that is about to install its tables holds the tables the other run
\* holds at that point, or has installed.
C7_TrainDeterministic ==
    /\ \A t \in Toks, u \in Toks :
          (/\ pc[t] = "store" /\ pc[u] = "store" /\ SameTrain(t, u)
           /\ tr[t].text = tr[u].text /\ tr[t].vocab_size = tr[u].vocab_size) =>
              /\ tr[t].merges = tr[u].merges
              /\ tr[t].vocab = tr[u].vocab
              /\ tr[t].ids = tr[u].ids
    /\ \A u \in Toks :
          (/\ last.op = "train" /\ last.err = "" /\ last.tok # u
           /\ pc[u] = "store" /\ SameTrain(last.tok, u)
           /\ tr[u].text = last.text /\ tr[u].vocab_size = last.vocab_size) =>
              /\ tr[u].merges = token_merges[last.tok]
              /\ tr[u].vocab = vocab[last.tok]
              /\ tr[u].ids = last.train_ids
\* The second run ends on a tokenizer that held other merges before.
C7_Witness ==
    /\ last.op = "train" /\ last.err = "" /\ last.tok = 1 /\ last.iters = 2
    /\ pc[2] = "store" /\ tr[2].text = last.text /\ tr[2].vocab_size = last.vocab_size
    /\ token_merges[2] # <<>> /\ token_merges[2] # token_merges[1]
    /\ tr[2].merges = token_merges[1]

\* Merge ids are 256, 257, ... in table order and exceed both ids of their pair.
MergeTableOk(merges) ==
    \A j \in 1..Len(merges) :
        /\ merges[j][2] = 255 + j
        /\ merges[j][1][1] < merges[j][2] /\ merges[j][1][2] < merges[j][2]
        /\ \A k \in 1..Len(merges) : merges[k][1] = merges[j][1] => k = j
\* C8: after a train that returned, the merge table holds m distinct pairs
\* with ids 256 .. 256+m-1 in iteration order, each id greater than both
\* ids of its pair; every iteration adds a new pair (the table has as many
\* entries as iterations that merged).
C8_MergeIdsMonotonic ==
    /\ \A t \in Toks : MergeTableOk(token_merges[t])
    /\ \A t \in Toks : pc[t] # "idle" =>
          MergeTableOk(tr[t].merges) /\ Len(tr[t].merges) = tr[t].i
    /\ (last.op = "train" /\ last.err = "") =>
          Len(token_merges[last.tok]) = last.iters
C8_Witness ==
    /\ last.op = "train" /\ last.err = "" /\ last.iters = 3
    /\ Len(token_merges[last.tok]) = 3

NoAdjacentPair(chunks) == \A c \in 1..Len(chunks) : Len(chunks[c]) < 2
TrainReturned ==
    (last.op = "train" /\ last.err = "") =>
        LET t == last.tok
        IN  /\ ~last.broke => last.iters = last.vocab_size - 256
            /\ last.broke =>
                  /\ last.iters < last.vocab_size - 256
                  /\ NoAdjacentPair(ChunksOf(t, last.train_ids))
            /\ Len(token_merges[t]) = last.iters
            /\ vocab[t] = _build_vocab(token_merges[t], <<>>)
\* The steps train has left at most: the iterations of the loop, the store.
TrainVariant(t) ==
    IF pc[t] = "idle" THEN 0
    ELSE IF pc[t] = "store" THEN 1
    ELSE 2 + (tr[t].num_merges - tr[t].i)
\* C10: train(text, V) with V >= 256 returns: every step inside train
\* lowers a bound that is never negative (the loop runs at most V - 256
\* times, then the store); it performs exactly V - 256 merge iterations,
\* unless the sequences at some iteration hold no adjacent pair, where it
\* stops without raising; either way the merges learned so far, and the
\* vocabulary built from them, are installed.
C10_TrainTerminates ==
    [][/\ TrainReturned'
       /\ \A t \in Toks :
             /\ pc'[t] \in {"idle", "loop", "store"}
             /\ pc'[t] = "loop" => tr'[t].i < tr'[t].num_merges
             /\ (pc[t] # "idle" /\ <<pc[t], tr[t]>>' # <<pc[t], tr[t]>>) =>
                   TrainVariant(t)' < TrainVariant(t) /\ TrainVariant(t)' >= 0]_vars
\* A train that stopped early with one merge learned.
C10_Witness ==
    /\ last.op = "train" /\ last.err = "" /\ last.broke
    /\ last.iters = 1 /\ last.vocab_size = 259
    /\ Len(token_merges[last.tok]) = 1

\* The ids of the special tokens registered on tokenizer t, and the literal
\* registered under an id.
SpecialIds(t) == {special_tokens[t][j][2] : j \in 1..Len(special_tokens[t])}
LiteralOf(specials, idx) ==
    specials[CHOOSE j \in 1..Len(specials) : specials[j][2] = idx][1]
\* The errors of decode that name an id: ValueError("invalid token id: idx")
\* and the KeyError(idx) of a failed lookup.
IdErrors == {"ValueError", "KeyError"}
\* A decode(ids) of tokenizer t that ended as r = [out, err, err_arg]: with
\* an id in neither table it raised an error naming such an id, otherwise it
\* returned the text of the vocabulary bytes and the literals' bytes.
DecodeAsClaimed(t, ids, r) ==
    LET absent == {ids[j] : j \in 1..Len(ids)} \ (VocabIds(vocab[t]) \cup SpecialIds(t))
    IN  IF absent # {}
        THEN r.err \in IdErrors /\ Len(r.err_arg) = 1 /\ r.err_arg[1] \in absent
        ELSE /\ r.err = ""
             /\ r.out = Utf8Decode(Concat([j \in 1..Len(ids) |->
                           IF VocabHas(vocab[t], ids[j]) THEN VocabGet(vocab[t], ids[j])
                           ELSE Utf8Encode(LiteralOf(special_tokens[t], ids[j]))]))
\* Every decode call of a BasicTokenizer or RegexTokenizer ended as claimed.
DecodeCallsAsClaimed ==
    (last.op = "decode" /\ ~last.of_encode) =>
        DecodeAsClaimed(last.tok, last.ids,
                        [out |-> last.out, err |-> last.err, err_arg |-> last.err_arg])
\* Every GPT4Tokenizer() call returned a tokenizer whose decode raises an
\* id error for an id in neither table and returns the literal of a special
\* token's id.
GPT4DecodeAsClaimed ==
    gpt4.state # "none" =>
        /\ gpt4.state = "ready"
        /\ \A j \in 1..Len(GPT4_SPECIAL_TOKENS) :
              LET r == GPT4Decode(gpt4.vocab, gpt4.inverse_byte_shuffle,
                                  <<GPT4_SPECIAL_TOKENS[j][2]>>)
              IN  r.err = "" /\ r.out = GPT4_SPECIAL_TOKENS[j][1]
        /\ GPT4Decode(gpt4.vocab, gpt4.inverse_byte_shuffle, <<5000>>).err \in IdErrors

\* C11 (as stated): for the basic, the regex and the compatibility
\* tokenizer, decode of a sequence with an id that is neither in the
\* vocabulary nor a registered special-token id fails with an error naming
\* that id, and an id that is only a registered special-token id decodes to
\* the UTF-8 bytes of its literal.
C11_Original == DecodeCallsAsClaimed /\ GPT4DecodeAsClaimed
\* A RegexTokenizer decoded [300] to "ab", 300 being the id of the special
\* token "ab" and no vocabulary id, and a GPT4Tokenizer() call was made.
C11_Witness ==
    /\ last.op = "decode" /\ kind[last.tok] = "regex" /\ last.ids = <<300>>
    /\ 300 \in SpecialIds(last.tok) /\ ~VocabHas(vocab[last.tok], 300)
    /\ last.err = "" /\ last.out = <<97, 98>>
    /\ gpt4.state = "raised" /\ gpt4.err = "AttributeError"

\* lit occurs in text as a substring.
OccursIn(lit, text) ==
    \E i \in 1..(Len(text) + 1) : \E j \in (i - 1)..Len(text) : SubSeq(text, i, j) = lit
\* The registered literals of tokenizer t that occur in text.
LiteralsIn(t, text) ==
    {special_tokens[t][j][1] : j \in {k \in 1..Len(special_tokens[t]) :
                                        OccursIn(special_tokens[t][k][1], text)}}
\* encode_ordinary(text) of tokenizer t in its current state.
OrdinaryOf(t, text) == encode_ordinary(compiled_pattern[t], token_merges[t], text)

\* C12: with allowed_special = "none_raise" encode raises an error naming a
\* registered literal that occurs in the text whenever one does, and
\* otherwise returns the ids of encode_ordinary; with "none" it always
\* returns encode_ordinary(text).
C12_RejectAndIgnorePolicies ==
    (last.op = "encode" /\ kind[last.tok] = "regex") =>
        /\ last.allowed = "none_raise" =>
              IF LiteralsIn(last.tok, last.text) # {}
              THEN last.err = "ValueError" /\ last.err_arg \in LiteralsIn(last.tok, last.text)
              ELSE last.err = "" /\ last.ids = OrdinaryOf(last.tok, last.text)
        /\ last.allowed = "none" =>
              last.err = "" /\ last.ids = OrdinaryOf(last.tok, last.text)
\* encode("aab") with the default policy raised naming "ab", a registered
\* literal in the middle of the text.
C12_Witness ==
    /\ last.op = "encode" /\ last.allowed = "none_raise" /\ last.text = <<97, 97, 98>>
    /\ special_tokens[last.tok] # <<>>
    /\ last.err = "ValueError" /\ last.err_arg = <<97, 98>>

\* The registered special tokens of t whose literal is in the set A, in
\* their order of registration.
RestrictedTo(t, A) ==
    LET S == {j \in 1..Len(special_tokens[t]) : special_tokens[t][j][1] \in A}
        F[n \in 0..Len(special_tokens[t])] ==
            IF n = 0 THEN <<>>
            ELSE IF n \in S THEN Append(F[n - 1], special_tokens[t][n]) ELSE F[n - 1]
    IN  F[Len(special_tokens[t])]

\* C13 (as stated): with a set A as allowed_special, encode returns what
\* allow-all encoding returns on a tokenizer whose registered special tokens
\* are restricted to A; registered literals outside A are ordinary text.
C13_Original ==
    (last.op = "encode" /\ last.allowed = "set") =>
        /\ last.err = ""
        /\ last.ids = RegexEncode(compiled_pattern[last.tok], token_merges[last.tok],
                                  RestrictedTo(last.tok, last.allowed_set),
                                  last.text, "all").ids
\* encode("ab", {"ab"}) was called with "ab" registered, and raised TypeError.
C13_Witness ==
    /\ last.op = "encode" /\ last.allowed = "set" /\ last.text = <<97, 98>>
    /\ last.allowed_set = {<<97, 98>>}
    /\ DictHas(special_tokens[last.tok], <<97, 98>>)
    /\ last.err = "TypeError"
\* With a set that holds no registered literal, encode returns the ordinary
\* encoding of the text.
SetPolicyWithoutRegistered ==
    (last.op = "encode" /\ last.allowed = "set"
        /\ RestrictedTo(last.tok, last.allowed_set) = <<>>) =>
        last.err = "" /\ last.ids = OrdinaryOf(last.tok, last.text)

\* The index of the longest literal of special that matches at position p
\* of text; 0 when none does.
LongestAlt(special, text, p) ==
    LET S == {j \in 1..Len(special) : IsPrefixAt(special[j][1], text, p)}
    IN  IF S = {} THEN 0
        ELSE CHOOSE j \in S : \A k \in S : Len(special[k][1]) <= Len(special[j][1])
\* The spans of text, ordinary and special alternating, when the longest
\* matching literal is taken at each split position.
RECURSIVE SplitLongestFrom(_, _, _, _)
SplitLongestFrom(special, text, start, p) ==
    IF p > Len(text) THEN <<SubSeq(text, start, Len(text))>>
    ELSE LET j == LongestAlt(special, text, p)
         IN  IF j = 0 THEN SplitLongestFrom(special, text, start, p + 1)
             ELSE LET next == p + Len(special[j][1])
                  IN  <<SubSeq(text, start, p - 1), special[j][1]>>
                         \o SplitLongestFrom(special, text, next, next)

\* C14 (as stated): with special tokens enabled, encode splits the text at
\* the longest enabled literal that matches at each split position and emits
\* its id, whatever the order of registration; the spans between are encoded
\* as ordinary text, in order.
C14_Original ==
    (last.op = "encode" /\ last.allowed = "all" /\ last.err = ""
        /\ special_tokens[last.tok] # <<>>) =>
        last.ids = EncodeParts(compiled_pattern[last.tok], token_merges[last.tok],
                               special_tokens[last.tok],
                               SplitLongestFrom(special_tokens[last.tok], last.text, 1, 1))
\* encode("ab", "all") with "a" registered before "ab" returned the id of
\* "a" and the byte "b".
C14_Witness ==
    /\ last.op = "encode" /\ last.allowed = "all" /\ last.text = <<97, 98>>
    /\ special_tokens[last.tok] = << <<<<97>>, 300>>, <<<<97, 98>>, 301>> >>
    /\ last.ids = <<300, 98>>
\* When no registered literal is a proper prefix of another, or the longer
\* one was registered first, encode does split at the longest literal.
NoShorterPrefixFirst(special) ==
    \A j, k \in 1..Len(special) :
        (j < k /\ Len(special[j][1]) < Len(special[k][1])) =>
            ~IsPrefixAt(special[j][1], special[k][1], 1)
LongestWhenOrdered ==
    (last.op = "encode" /\ last.allowed = "all" /\ last.err = ""
        /\ special_tokens[last.tok] # <<>>
        /\ NoShorterPrefixFirst(special_tokens[last.tok])) =>
        last.ids = EncodeParts(compiled_pattern[last.tok], token_merges[last.tok],
                               special_tokens[last.tok],
                               SplitLongestFrom(special_tokens[last.tok], last.text, 1, 1))

\* The rank invariant of a table: every longer token is the concatenation of
\* two ranked tokens of lower rank.
RankInvariant(ranks) ==
    \A j \in 1..Len(ranks) :
        Len(ranks[j][1]) >= 2 =>
            \E k \in 1..(Len(ranks[j][1]) - 1) :
                LET left == SubSeq(ranks[j][1], 1, k)
                    right == SubSeq(ranks[j][1], k + 1, Len(ranks[j][1]))
                IN  /\ RankHas(ranks, left) /\ RankGet(ranks, left) < ranks[j][2]
                    /\ RankHas(ranks, right) /\ RankGet(ranks, right) < ranks[j][2]
\* The reference rank-based BPE of one chunk: repeatedly join the leftmost
\* adjacent pair of byte runs whose concatenation has the lowest rank; the
\* result is the ranks of the runs that remain.
RECURSIVE ReferenceRuns(_, _)
ReferenceRuns(ranks, parts) ==
    LET S == {i \in 1..(Len(parts) - 1) : RankHas(ranks, parts[i] \o parts[i + 1])}
    IN  IF S = {} THEN parts
        ELSE LET i == CHOOSE x \in S : \A y \in S :
                          \/ RankGet(ranks, parts[x] \o parts[x + 1])
                                < RankGet(ranks, parts[y] \o parts[y + 1])
                          \/ /\ RankGet(ranks, parts[x] \o parts[x + 1])
                                   = RankGet(ranks, parts[y] \o parts[y + 1])
                             /\ x <= y
             IN  ReferenceRuns(ranks, SubSeq(parts, 1, i - 1)
                                         \o <<parts[i] \o parts[i + 1]>>
                                         \o SubSeq(parts, i + 2, Len(parts)))
ReferenceChunk(ranks, chunk_bytes) ==
    LET runs == ReferenceRuns(ranks, [j \in 1..Len(chunk_bytes) |-> <<chunk_bytes[j]>>])
    IN  [j \in 1..Len(runs) |-> RankGet(ranks, runs[j])]
\* The reference encoding of a text: its chunks, each encoded by rank.
ReferenceOrdinary(ranks, text) ==
    LET chunks == FindAll(GPT4_SPLIT_PATTERN, text)
    IN  Concat([c \in 1..Len(chunks) |-> ReferenceChunk(ranks, Utf8Encode(chunks[c]))])
\* The reference encoding under allow-all: the special literals give their
\* ids, the text between them is encoded by rank.
ReferenceEncode(ranks, specials, text) ==
    LET spans == SplitLongestFrom(specials, text, 1, 1)
    IN  Concat([c \in 1..Len(spans) |->
                   IF DictHas(specials, spans[c]) THEN <<DictGet(specials, spans[c])>>
                   ELSE ReferenceOrdinary(ranks, spans[c])])
\* Texts with no, one and two special-token literals ("<e>", "<p>").
GPT4Texts ==
    Texts \cup {<<97, 60, 101, 62, 97, 98>>, <<60, 101, 62, 97, 97, 60, 112, 62>>}

\* C15 (as stated): for a rank table with the rank invariant, the
\* compatibility tokenizer built from it encodes every text, also one with
\* special-token literals under "all", to the id sequence of the reference
\* rank-based BPE over the same table.
C15_Original ==
    (gpt4.state # "none" /\ RankInvariant(gpt4.mergeable_ranks)) =>
        /\ gpt4.state = "ready"
        /\ \A text \in GPT4Texts :
              LET r == GPT4Encode(gpt4.byte_shuffle, gpt4.token_merges,
                                  gpt4.special_tokens, text, "all")
              IN  r.err = "" /\ r.ids = ReferenceEncode(gpt4.mergeable_ranks,
                                                        GPT4_SPECIAL_TOKENS, text)
\* GPT4Tokenizer() was called with a table that has the rank invariant, a
\* permutation of the bytes and three longer tokens, and raised.
C15_Witness ==
    /\ gpt4.state = "raised" /\ gpt4.err = "AttributeError"
    /\ RankInvariant(gpt4.mergeable_ranks)
    /\ Len(gpt4.token_merges) = 3 /\ gpt4.byte_shuffle[97] = 98
\* The fields __init__ had assigned when it raised: the permutation and the
\* recovered merges encode every text without special tokens as the
\* reference does.
RecoveredEncodeMatchesReference ==
    (gpt4.state = "raised" /\ gpt4.err = "AttributeError"
        /\ RankInvariant(gpt4.mergeable_ranks)) =>
        \A text \in Texts :
            GPT4EncodeOrdinary(gpt4.byte_shuffle, gpt4.token_merges, text)
                = ReferenceOrdinary(gpt4.mergeable_ranks, text)

\* f is a dict with exactly the keys 0..255 whose values are 0..255, each once.
IsBytePermutation(f) ==
    /\ DOMAIN f = 0..255
    /\ {f[b] : b \in 0..255} = 0..255
\* inv, a dict, has the 256 keys and takes f[b] back to b.
IsInverseOf(inv, f) ==
    /\ DictKeys(inv) = 0..255
    /\ \A b \in 0..255 : DictHas(inv, f[b]) /\ DictGet(inv, f[b]) = b

\* C16 (as stated): after construction of the compatibility tokenizer,
\* byte_shuffle is a complete permutation of 0..255 (byte -> rank of the
\* single byte) and inverse_byte_shuffle is its exact inverse.
C16_Original ==
    (gpt4.state # "none" /\ RankInvariant(gpt4.mergeable_ranks)) =>
        /\ gpt4.state = "ready"
        /\ IsBytePermutation(gpt4.byte_shuffle)
        /\ \A b \in 0..255 : gpt4.byte_shuffle[b] = RankGet(gpt4.mergeable_ranks, <<b>>)
        /\ gpt4.has_inverse
        /\ IsInverseOf(gpt4.inverse_byte_shuffle, gpt4.byte_shuffle)
\* GPT4Tokenizer() raised in _build_inverse_byte_shuffle: byte_shuffle is
\* the permutation "a" -> 98, "b" -> 99, "c" -> 97 and no
\* inverse_byte_shuffle was assigned.
C16_Witness ==
    /\ gpt4.state = "raised" /\ gpt4.err = "AttributeError"
    /\ gpt4.byte_shuffle[97] = 98 /\ gpt4.byte_shuffle[98] = 99 /\ gpt4.byte_shuffle[99] = 97
    /\ ~gpt4.has_inverse /\ gpt4.inverse_byte_shuffle = <<>>
\* The forward map is built before the call raises, and is a permutation.
ForwardShuffleIsPermutation ==
    (gpt4.state = "raised" /\ gpt4.err = "AttributeError") =>
        /\ IsBytePermutation(gpt4.byte_shuffle)
        /\ \A b \in 0..255 : gpt4.byte_shuffle[b] = RankGet(gpt4.mergeable_ranks, <<b>>)

\* C17 (as stated): the compatibility tokenizer returns text from
\* decode(encode(text)) for every text without special-token literals, and
\* from decode(encode(text, "all")) for texts with registered literals.
C17_Original ==
    (gpt4.state # "none" /\ RankInvariant(gpt4.mergeable_ranks)) =>
        /\ gpt4.state = "ready"
        /\ \A text \in GPT4Texts :
              LET enc == GPT4Encode(gpt4.byte_shuffle, gpt4.token_merges,
                                    gpt4.special_tokens, text, "all")
                  dec == GPT4Decode(gpt4.vocab, gpt4.inverse_byte_shuffle, enc.ids)
              IN  enc.err = "" /\ dec.err = "" /\ dec.out = text
\* GPT4Tokenizer() raised with "aa" as token 256 in its table: "aa" would
\* encode to [256], the vocabulary holds 256, and there is no inverse
\* permutation to decode its bytes with.
C17_Witness ==
    /\ gpt4.state = "raised" /\ gpt4.err = "AttributeError"
    /\ GPT4EncodeOrdinary(gpt4.byte_shuffle, gpt4.token_merges, <<97, 97>>) = <<256>>
    /\ VocabHas(gpt4.vocab, 256)
    /\ GPT4Decode(gpt4.vocab, gpt4.inverse_byte_shuffle, <<256>>).err = "KeyError"
    /\ gpt4.special_tokens = <<>>

\* The whitespace-separated fields of a line: the n-th field runs from the
\* n-th position where a field starts to the n-th position where one ends.
FieldStarts(line) ==
    {q \in 1..Len(line) : line[q] # 32 /\ (q = 1 \/ line[q - 1] = 32)}
FieldEnds(line) ==
    {q \in 1..Len(line) : line[q] # 32 /\ (q = Len(line) \/ line[q + 1] = 32)}
NthOf(S, n) == CHOOSE x \in S : Cardinality({y \in S : y <= x}) = n
FieldsOf(line) ==
    [n \in 1..Cardinality(FieldStarts(line)) |->
        SubSeq(line, NthOf(FieldStarts(line), n), NthOf(FieldEnds(line), n))]
\* A field is the decimal text of an integer.
IsIntegerText(field) ==
    LET digits == IF field # <<>> /\ field[1] \in {43, 45} THEN Tail(field) ELSE field
    IN  digits # <<>> /\ \A j \in 1..Len(digits) : digits[j] \in 48..57
\* A line without its surrounding whitespace.
Trimmed(line) ==
    IF FieldStarts(line) = {} THEN <<>>
    ELSE SubSeq(line, NthOf(FieldStarts(line), 1),
                NthOf(FieldEnds(line), Cardinality(FieldEnds(line))))
\* Line k of a file, empty past its end.
LineOf(file, k) == IF k \in 1..Len(file) THEN file[k] ELSE <<>>
\* The first line is not the version tag.
BadVersion(file) == Trimmed(LineOf(file, 1)) # VersionTag
\* The number of special-token lines the third line announces.
CountParses(file) == IsIntegerText(Trimmed(LineOf(file, 3)))
AnnouncedSpecials(file) ==
    LET n == StrToInt(Trimmed(LineOf(file, 3))) IN IF n > 0 THEN n ELSE 0
\* One of the announced special-token lines has not exactly two fields.
BadSpecialLine(file) ==
    /\ CountParses(file)
    /\ \E k \in 4..(3 + AnnouncedSpecials(file)) : Len(FieldsOf(LineOf(file, k))) # 2
\* A line after the special-token lines is not two integers.
BadMergeLine(file) ==
    /\ CountParses(file)
    /\ \E k \in (4 + AnnouncedSpecials(file))..Len(file) :
          \/ Len(FieldsOf(file[k])) # 2
          \/ \E n \in 1..2 : ~IsIntegerText(FieldsOf(file[k])[n])

C19_Original ==
    [][(last'.op = "load") =>
          IF last'.err # ""
          THEN UNCHANGED <<token_merges, special_tokens, vocab, pattern>>
          ELSE LET t == last'.tok
               IN  vocab'[t] = _build_vocab(token_merges'[t], special_tokens'[t])]_vars
\* A trained tokenizer called load on a file with the pattern line "(?s).+"
\* and the count line "x": the call raised, the merges are still there, and
\* the pattern is the one of the file.
C19_Witness ==
    /\ last.op = "load" /\ last.err = "ValueError"
    /\ fs = <<VersionTag, WholePattern, L_x>>
    /\ token_merges[last.tok] # <<>>
    /\ pattern[last.tok] = WholePattern
\* What a failed load does keep: merge table, special tokens and vocabulary,
\* unless the failure is the KeyError of _build_vocab.
FailedLoadKeepsTables ==
    [][(last'.op = "load" /\ last'.err \in {"ValueError", "FileNotFoundError"}) =>
          UNCHANGED <<token_merges, special_tokens, vocab>>]_vars
\* A load that returned left a vocabulary built from the tables it installed.
LoadedTablesConsistent ==
    (last.op = "load" /\ last.err = "") =>
        vocab[last.tok] = _build_vocab(token_merges[last.tok], special_tokens[last.tok])

\* A save of tokenizer t that returned just now.
Saved(t) == last.op = "save" /\ last.tok = t /\ last.err = ""
\* Lines 1 and 3.. of the file are the version tag, the number of special
\* tokens, a "literal id" line per special token in dict order and a
\* "left right" line per merge in the order of the merge table.
FileBodyOf(t, file) ==
    LET n == Len(special_tokens[t])
        m == Len(token_merges[t])
    IN  /\ Len(file) = 3 + n + m
        /\ file[1] = VersionTag
        /\ file[3] = IntToStr(n)
        /\ \A j \in 1..n :
              file[3 + j] = special_tokens[t][j][1] \o <<32>>
                               \o IntToStr(special_tokens[t][j][2])
        /\ \A j \in 1..m :
              file[3 + n + j] = IntToStr(token_merges[t][j][1][1]) \o <<32>>
                                   \o IntToStr(token_merges[t][j][1][2])
\* load gives the merge lines of a file it accepts the ids 256, 257, ... in
\* file order.
LoadNumbersInOrder(file) ==
    LET r == LoadFile(file)
    IN  r.parsed =>
           \A j \in 1..Len(r.merges) : r.merges[j][2] = 255 + j

\* C20 (as stated): the second line of the file save writes is the split
\* pattern the saving tokenizer was configured with; then come the number of
\* special tokens, a "literal id" line each and a "left right" line per merge
\* in training order; load numbers the merges 256, 257, ... in file order.
C20_Original ==
    \A t \in Toks :
        Saved(t) =>
            /\ fs[2] = pattern[t]
            /\ FileBodyOf(t, fs)
            /\ LoadNumbersInOrder(fs)
\* A RegexTokenizer constructed with the pattern "(?s).+", trained and given
\* a special token, saved a file whose second line is empty.
C20_Witness ==
    /\ Saved(1)
    /\ pattern[1] = WholePattern /\ compiled_pattern[1] = WholePattern
    /\ token_merges[1] # <<>> /\ special_tokens[1] # <<>>
    /\ fs[2] = <<>>
\* What save does write: self.source, always empty, as the second line, and
\* the other lines as stated.
SavedFileAsWritten ==
    \A t \in Toks :
        Saved(t) => fs[2] = Source /\ FileBodyOf(t, fs) /\ LoadNumbersInOrder(fs)

\* The longer tokens of a rank table, as positions of the table.
MultiByte(ranks) == {j \in 1..Len(ranks) : Len(ranks[j][1]) >= 2}
\* The reduction of the token at position j, bounded by its own rank.
ReductionOf(ranks, j) == _byte_pair_encoding(ranks, ranks[j][1], ranks[j][2])
\* The merge table records, for the token at position j, a pair of ranked
\* parts that make up the token, both of lower rank than the token.
RecordedSplit(ranks, merges, j) ==
    \E k \in 1..(Len(ranks[j][1]) - 1) :
        LET left == SubSeq(ranks[j][1], 1, k)
            right == SubSeq(ranks[j][1], k + 1, Len(ranks[j][1]))
        IN  /\ ReductionOf(ranks, j) = <<left, right>>
            /\ RankHas(ranks, left) /\ RankGet(ranks, left) < ranks[j][2]
            /\ RankHas(ranks, right) /\ RankGet(ranks, right) < ranks[j][2]
            /\ DictHas(merges, <<RankGet(ranks, left), RankGet(ranks, right)>>)
            /\ DictGet(merges, <<RankGet(ranks, left), RankGet(ranks, right)>>) = ranks[j][2]
\* _recover_merges returned in the GPT4Tokenizer() call: the call went on to
\* the later statements of __init__.
RecoveryReturned == gpt4.state # "none" /\ gpt4.err \in {"", "KeyError", "AttributeError"}
\* Every reduction of the table ends with two parts.
AllReduceToTwo(ranks) == \A j \in MultiByte(ranks) : Len(ReductionOf(ranks, j)) = 2
\* A reduction joins two parts per step and never more parts than bytes.
ReductionShrinks(ranks, j) ==
    LET parts == ReductionOf(ranks, j)
    IN  Len(parts) >= 1 /\ Len(parts) <= Len(ranks[j][1]) /\ Concat(parts) = ranks[j][1]

\* C21 (as stated): rank recovery ends for every longer token of the table
\* with two parts that make up the token, both of lower rank, and records
\* (rank(left), rank(right)) -> rank(token); when a reduction does not end
\* with two parts, recovery fails with the corruption error (ValueError) and
\* records no merge.
C21_Original ==
    gpt4.state # "none" =>
        LET ranks == gpt4.mergeable_ranks
        IN  /\ \A j \in MultiByte(ranks) : ReductionShrinks(ranks, j)
            /\ IF AllReduceToTwo(ranks)
               THEN /\ RecoveryReturned
                    /\ Len(gpt4.token_merges) = Cardinality(MultiByte(ranks))
                    /\ \A j \in MultiByte(ranks) : RecordedSplit(ranks, gpt4.token_merges, j)
               ELSE /\ gpt4.state = "raised" /\ gpt4.err = "ValueError"
                    /\ gpt4.token_merges = <<>>
\* GPT4Tokenizer() was called with a table whose only longer token is "abab":
\* its reduction ends with four parts, and the call raised UnboundLocalError.
C21_Witness ==
    /\ gpt4.state = "raised" /\ gpt4.err = "UnboundLocalError"
    /\ \E j \in MultiByte(gpt4.mergeable_ranks) :
          /\ gpt4.mergeable_ranks[j] = <<<<97, 98, 97, 98>>, 256>>
          /\ Len(ReductionOf(gpt4.mergeable_ranks, j)) = 4
    /\ gpt4.token_merges = <<>>
\* What recovery does: as stated when every reduction ends with two parts;
\* otherwise it raises, ValueError when an earlier token had been split in
\* two and UnboundLocalError when none had, and nothing is assigned.
RecoveryAsBuilt ==
    gpt4.state # "none" =>
        LET ranks == gpt4.mergeable_ranks
            bad == {j \in MultiByte(ranks) : Len(ReductionOf(ranks, j)) # 2}
        IN  /\ \A j \in MultiByte(ranks) : ReductionShrinks(ranks, j)
            /\ IF bad = {}
               THEN /\ RecoveryReturned
                    /\ Len(gpt4.token_merges) = Cardinality(MultiByte(ranks))
                    /\ \A j \in MultiByte(ranks) : RecordedSplit(ranks, gpt4.token_merges, j)
               ELSE /\ gpt4.state = "raised" /\ gpt4.token_merges = <<>>
                    /\ gpt4.err = IF \E j \in MultiByte(ranks) : \A k \in bad : j < k
                                  THEN "ValueError" ELSE "UnboundLocalError"

\* The ids a merge table and a special-token mapping assign.
MergeIdsOf(merges) == {merges[j][2] : j \in 1..Len(merges)}
SpecialIdsOf(specials) == {specials[j][2] : j \in 1..Len(specials)}
\* Merge j names an id that is neither a byte nor the id of an earlier merge.
NamesUndefined(merges, j) ==
    \E n \in 1..2 :
        /\ merges[j][1][n] \notin 0..255
        /\ \A k \in 1..(j - 1) : merges[k][2] # merges[j][1][n]
\* A vocabulary built from (merges, specials), as C22 describes it.
BuiltAsClaimed(v, merges, specials) ==
    /\ VocabIds(v) = (0..255) \cup MergeIdsOf(merges) \cup SpecialIdsOf(specials)
    /\ \A b \in 0..255 : VocabGet(v, b) = <<b>>
    /\ \A j \in 1..Len(merges) :
          VocabGet(v, merges[j][2])
             = VocabGet(v, merges[j][1][1]) \o VocabGet(v, merges[j][1][2])
    /\ \A j \in 1..Len(specials) :
          VocabGet(v, specials[j][2]) = Utf8Encode(specials[j][1])
\* _build_vocab returned or raised as C22 describes.
BuildVocabAsClaimed ==
    IF \E j \in 1..Len(pure.token_merges) : NamesUndefined(pure.token_merges, j)
    THEN pure.err = "KeyError"
    ELSE /\ pure.err = ""
         /\ BuiltAsClaimed(pure.result, pure.token_merges, pure.special_tokens)
         /\ pure.calls = 2 => pure.result = pure.prev_result
\* The ids of the special tokens are pairwise distinct, and none is a byte
\* id or a merge id.
SpecialIdsApart(merges, specials) ==
    /\ SpecialIdsOf(specials) \cap ((0..255) \cup MergeIdsOf(merges)) = {}
    /\ \A j, k \in 1..Len(specials) : specials[j][2] = specials[k][2] => j = k

BuildVocabRaisedOnUndefined ==
    /\ pure.fn = "_build_vocab" /\ pure.returned /\ pure.err = "KeyError"
    /\ pure.token_merges[1][1] = <<257, 97>>
\* The special token "ab" -> 98 replaced the entry of byte 98.
BuildVocabReplacedByte ==
    /\ pure.fn = "_build_vocab" /\ pure.returned /\ pure.err = ""
    /\ pure.special_tokens = << <<<<97, 98>>, 98>> >>
    /\ VocabGet(pure.result, 98) = <<97, 98>>

\* The vocabulary of t holds every byte id, each with its single byte.
BytesKept(t) == \A b \in 0..255 : VocabHas(vocab[t], b) /\ VocabGet(vocab[t], b) = <<b>>

\* C23 (as stated): in every state reached by construction, train,
\* register_special_tokens, load and save, the vocabulary maps every id b in
\* 0..255 to the single byte b, also after a special token with an id below
\* 256 was registered or loaded.
C23_Original == \A t \in Toks : BytesKept(t)
\* Tokenizer 1 registered "ab" -> 98 and saved; tokenizer 2 loaded the file
\* and its vocabulary maps 98 to "ab".
C23_Witness ==
    /\ last.op = "load" /\ last.tok = 2 /\ last.err = ""
    /\ special_tokens[1] = << <<<<97, 98>>, 98>> >>
    /\ special_tokens[2] = special_tokens[1]
    /\ VocabGet(vocab[2], 98) = <<97, 98>>
\* Construction, train, register_special_tokens and save leave the 256
\* entries as they are: tokenizer 1, which never loads, keeps them; and so
\* does a tokenizer that loaded special tokens with ids from 256 on.
BytesKeptWithoutLoad == BytesKept(1)
BytesKeptByLoad ==
    \A t \in Toks :
        (\A j \in 1..Len(special_tokens[t]) : special_tokens[t][j][2] >= 256) => BytesKept(t)

\* The bytes a sequence of ids stands for under a vocabulary.
Expand(v, ids) == Concat([j \in 1..Len(ids) |-> VocabGet(v, ids[j])])
\* The chunks of the text the train of t was called with.
TrainChunks(t) == FindAll(compiled_pattern[t], tr[t].text)
\* The chunks the statistics of the last iteration of t were taken from.
CountedChunks(t) == IF tr[t].broke THEN tr[t].ids ELSE tr[t].prev_ids
\* bs occurs inside chunk_bytes.
Within(bs, chunk_bytes) ==
    \E q \in 1..(Len(chunk_bytes) - Len(bs) + 1) :
        SubSeq(chunk_bytes, q, q + Len(bs) - 1) = bs
\* RegexTokenizer.train of t is between two iterations or about to return.
InRegexTrain(t) == kind[t] = "regex" /\ pc[t] \in {"loop", "store"}

\* C24: during RegexTokenizer.train the count of a pair is the sum of its
\* counts inside the chunks (a pair made of the last id of a chunk and the
\* first id of the next is not counted, a chunk of fewer than two ids adds
\* nothing); after every iteration the number of chunks is that of the split
\* text and the ids of each chunk expand to the bytes of that chunk, and the
\* bytes of every learned merge lie inside one chunk.
C24_TrainKeepsChunks ==
    \A t \in Toks : InRegexTrain(t) =>
        LET l == tr[t]
            chunks == TrainChunks(t)
        IN  /\ Len(l.ids) = Len(chunks)
            /\ \A c \in 1..Len(chunks) : Expand(l.vocab, l.ids[c]) = Utf8Encode(chunks[c])
            /\ (l.i >= 1 \/ l.broke) =>
                  /\ DictKeys(l.stats) = AdjPairs(CountedChunks(t))
                  /\ \A q \in DictKeys(l.stats) :
                        DictGet(l.stats, q) = TotalCount(CountedChunks(t), q)
                  /\ \A c \in 1..Len(chunks) :
                        Len(CountedChunks(t)[c]) < 2 =>
                            \A q \in DictKeys(l.stats) : AdjCount(CountedChunks(t)[c], q) = 0
            /\ \A j \in 1..Len(l.merges) :
                  \E c \in 1..Len(chunks) :
                      Within(VocabGet(l.vocab, l.merges[j][2]), Utf8Encode(chunks[c]))
\* Training on "a a" (chunks "a" and " a") after one iteration: (32, 97) was
\* merged inside the second chunk, and the pair (97, 32) across the boundary
\* was not counted.
C24_Witness ==
    /\ InRegexTrain(1) /\ tr[1].text = <<97, 32, 97>> /\ tr[1].i = 1
    /\ tr[1].prev_ids = <<<<97>>, <<32, 97>>>>
    /\ tr[1].ids = <<<<97>>, <<256>>>>
    /\ ~DictHas(tr[1].stats, <<97, 32>>)
    /\ tr[1].stats = << <<<<32, 97>>, 1>> >>

\* The adjacent pairs of ids that are keys of the merge table.
PresentPairs(merges, ids) ==
    {p \in DictKeys(merges) : \E i \in 1..(Len(ids) - 1) : <<ids[i], ids[i + 1]>> = p}
\* The sequences a chunk goes through when, while a key of the table is
\* adjacent in it, the adjacent key of the lowest merge id is merged.
RECURSIVE EncodeTrace(_, _)
EncodeTrace(merges, ids) ==
    LET present == PresentPairs(merges, ids)
    IN  IF present = {} THEN <<ids>>
        ELSE LET p == CHOOSE x \in present :
                          \A y \in present : DictGet(merges, x) <= DictGet(merges, y)
             IN  <<ids>> \o EncodeTrace(merges, _merge(ids, p, DictGet(merges, p)))
\* out is what chunk encoding is claimed to return for text_bytes.
EncodedAsClaimed(merges, text_bytes, out) ==
    LET trace == EncodeTrace(merges, text_bytes)
    IN  /\ out = trace[Len(trace)]
        /\ \A k \in 1..(Len(trace) - 1) : Len(trace[k + 1]) < Len(trace[k])
        /\ PresentPairs(merges, out) = {}
        /\ Expand(_build_vocab(merges, <<>>), out) = text_bytes

\* C25: chunk encoding (the loop of BasicTokenizer.encode and of
\* RegexTokenizer._encode_chunk) ends; each step merges the adjacent pair
\* with the lowest merge id, every step shortens the sequence, and the loop
\* stops only when no adjacent pair is a key of the merge table; the result
\* holds no adjacent pair of the table and expands to the input bytes.
C25_EncodeChunk ==
    (pure.fn = "_encode_chunk" /\ pure.returned) =>
        EncodedAsClaimed(pure.token_merges, pure.arg_ids, pure.result)
\* "aab" under the table (97, 98) -> 256, (97, 97) -> 257: both keys are
\* adjacent at the start, the one with id 256 was merged.
C25_Witness ==
    /\ pure.fn = "_encode_chunk" /\ pure.returned
    /\ pure.token_merges = << <<<<97, 98>>, 256>>, <<<<97, 97>>, 257>> >>
    /\ pure.arg_ids = <<97, 97, 98>>
    /\ Cardinality(PresentPairs(pure.token_merges, pure.arg_ids)) = 2
    /\ pure.result = <<97, 256>>
\* The same for the encode calls of a trained BasicTokenizer or
\* RegexTokenizer: every chunk of the text is encoded as claimed.
EncodeCallsAsClaimed ==
    (last.op = "encode" /\ last.err = "") =>
        LET t == last.tok
            chunks == IF kind[t] = "basic" THEN <<last.text>>
                      ELSE FindAll(compiled_pattern[t], last.text)
            outs == [c \in 1..Len(chunks) |->
                        LET trace == EncodeTrace(token_merges[t], Utf8Encode(chunks[c]))
                        IN  trace[Len(trace)]]
        IN  /\ last.ids = Concat(outs)
            /\ \A c \in 1..Len(chunks) :
                  EncodedAsClaimed(token_merges[t], Utf8Encode(chunks[c]), outs[c])

\* The inverse mapping holds id -> literal for the tokens of specials, the
\* later token where two share an id.
InverseOfSpecials(inv, specials) ==
    /\ DictKeys(inv) = SpecialIdsOf(specials)
    /\ \A j \in 1..Len(specials) :
          (\A k \in (j + 1)..Len(specials) : specials[k][2] # specials[j][2]) =>
              DictGet(inv, specials[j][2]) = specials[j][1]

\* C26: a register_special_tokens call changes the special-token mapping and
\* its inverse only: merge table, vocabulary and split pattern are as
\* before, encode_ordinary returns the same ids for every text before and
\* after, and the inverse is that of the mapping just registered.
C26_RegisterFrame ==
    [][(last'.op = "register") =>
          LET t == last'.tok
          IN  /\ UNCHANGED <<token_merges, vocab, pattern, compiled_pattern>>
              /\ \A text \in Texts :
                    encode_ordinary(compiled_pattern'[t], token_merges'[t], text)
                       = encode_ordinary(compiled_pattern[t], token_merges[t], text)
              /\ InverseOfSpecials(inverse_special_tokens'[t], special_tokens'[t])]_vars
\* A trained tokenizer on which "ab" -> 300 was just registered: its merge
\* table is the trained one and its vocabulary has no entry 300.
C26_Witness ==
    /\ last.op = "register" /\ last.tok = 1
    /\ special_tokens[1] = << <<<<97, 98>>, 300>> >>
    /\ token_merges[1] = << <<<<97, 98>>, 256>> >>
    /\ VocabHas(vocab[1], 256) /\ ~VocabHas(vocab[1], 300)
    /\ encode_ordinary(compiled_pattern[1], token_merges[1], <<97, 98>>) = <<256>>

\* decode of the single id idx on tokenizer t gives a special-token literal
\* that the vocabulary does not give.
ResolvesAsSpecial(t, idx) ==
    /\ ~VocabHas(vocab[t], idx)
    /\ RegexDecode(vocab[t], inverse_special_tokens[t], <<idx>>).err = ""
\* Ids decode may be asked about: the registered and loaded special ids.
ProbeIds == {300, 301}

\* C27 (as stated): in every state of a RegexTokenizer reached by train,
\* register_special_tokens and load, inverse_special_tokens is the inverse
\* of special_tokens, and decode takes an id to a special-token literal
\* exactly when a token with that id is currently registered.
C27_Original ==
    \A t \in Toks : (kind[t] = "regex" /\ pc[t] = "idle") =>
        /\ InverseOfSpecials(inverse_special_tokens[t], special_tokens[t])
        /\ \A idx \in ProbeIds :
              ResolvesAsSpecial(t, idx) => idx \in SpecialIdsOf(special_tokens[t])
\* A RegexTokenizer with "ab" -> 301 registered loaded a file without
\* special tokens: special_tokens is empty, inverse_special_tokens still
\* holds 301 and decode([301]) returns "ab".
C27_Witness ==
    /\ last.op = "load" /\ last.err = "" /\ kind[last.tok] = "regex"
    /\ special_tokens[last.tok] = <<>>
    /\ inverse_special_tokens[last.tok] = << <<301, <<97, 98>>>> >>
    /\ RegexDecode(vocab[last.tok], inverse_special_tokens[last.tok], <<301>>)
          = [out |-> <<97, 98>>, err |-> ""]
\* Without load the inverse is that of the registered mapping (the later
\* literal where two share an id).
InverseExactWithoutLoad ==
    \A t \in Toks : (kind[t] = "regex" /\ pc[t] = "idle") =>
        InverseOfSpecials(inverse_special_tokens[t], special_tokens[t])

\* C28 (as stated): in every state reached by construction, train,
\* register_special_tokens and load, the stored vocabulary is what
\* _build_vocab gives for the current merge table and special tokens.
C28_Original ==
    \A t \in Toks : pc[t] = "idle" =>
        vocab[t] = _build_vocab(token_merges[t], special_tokens[t])
\* "ab" -> 301 was just registered on a trained RegexTokenizer: the stored
\* vocabulary has no entry 301, the built one has.
C28_Witness ==
    /\ last.op = "register" /\ pc[last.tok] = "idle"
    /\ special_tokens[last.tok] = << <<<<97, 98>>, 301>> >>
    /\ token_merges[last.tok] # <<>>
    /\ ~VocabHas(vocab[last.tok], 301)
    /\ VocabGet(_build_vocab(token_merges[last.tok], special_tokens[last.tok]), 301)
          = <<97, 98>>
\* A load that raised KeyError in _build_vocab left a merge table that the
\* stored vocabulary was not built from.
StaleAfterFailedLoad ==
    /\ last.op = "load" /\ last.err = "KeyError"
    /\ token_merges[last.tok] = << <<<<300, 97>>, 256>> >>
    /\ ~VocabHas(vocab[last.tok], 256)
\* What is stored without load: the vocabulary of the merge table alone.
VocabOfMergesWithoutLoad ==
    \A t \in Toks : pc[t] = "idle" => vocab[t] = _build_vocab(token_merges[t], <<>>)
\* And a load that returned stored the vocabulary of the tables it read.
VocabBuiltByLoad ==
    (last.op = "load" /\ last.err = "") =>
        vocab[last.tok] = _build_vocab(token_merges[last.tok], special_tokens[last.tok])


====
